---- MODULE Spec2Model ----
(***************************************************************************)
(* Reservation lifecycle of k8s-playground: the Redis work queue           *)
(* (pkg/queue), the Gateway's reservation handlers (createEnvironment,     *)
(* updateEnvironmentDisplayName, destroyEnvironment), and the Generator,   *)
(* Collector and Killer loops.                                             *)
(*                                                                         *)
(* Granularity.  Every process is a separate OS process talking to Redis   *)
(* and to the outer Kubernetes API over the network.  One action is one    *)
(* remote call taking effect, followed by the local computation of the     *)
(* caller up to the point where it issues its next remote call.            *)
(* RedisQueue.UpdateItem stamps item.StatusUpdatedAt = time.Now() in the   *)
(* caller and only then sends the HSET, so the stamp belongs to the step   *)
(* that issues the write and the HSET is a step of its own.                *)
(*                                                                         *)
(* Time.  The clock `now` counts abstract ticks; the durations of the      *)
(* program (24 h lifetime, 5 min grace, 5 min readiness timeout) are       *)
(* scaled to a few ticks, keeping their order.                             *)
(***************************************************************************)
EXTENDS Integers, Sequences, FiniteSets, TLC

\* ------------------------------------------------------------------ bounds
MaxIds == 1          \* reservation ids that createEnvironment can issue
MaxTime == 2         \* the clock stops here
MaxContainers == 1   \* container statuses reported for one sandbox pod
MaxRequests == 1     \* rename and destroy requests served in one run
MaxFailures == 1     \* Redis commands that fail in one run
MaxRestarts == 1     \* restarts of the Generator process in one run

\* ------------------------------------------------- durations (clock ticks)
Lifetime == 1        \* ExpiresAt = time.Now().Add(24 * time.Hour)
TerminatedGracePeriod == 1   \* const terminatedGracePeriod = 5 * time.Minute
ReadyTimeout == 1    \* timeout := time.After(5 * time.Minute)

\* ------------------------------------------------------------ QueueStatus
StatusPending == "pending"
StatusGenerating == "generating"
StatusError == "error"
StatusAvailable == "available"
StatusShutdown == "shutdown"
StatusTerminated == "terminated"

Statuses ==
  {StatusPending, StatusGenerating, StatusError, StatusAvailable,
   StatusShutdown, StatusTerminated}

\* ------------------------------------------------------------ input sets
Ids == 1 .. MaxIds
Owners == {"alice"}
Principals == {"alice", "bob"}
\* DIND_IMAGE_VERSIONS_JSON as deployed: one configured version
dindImageVersions == {"1.33"}
RequestedVersions == {"1.33", "9.99"}
\* values of DIND_WORKLOAD_TYPE the Gateway may be started with
ConfiguredWorkloadTypes == {"statefulset", "deployment", "daemonset"}

EmptyPodID == 0
\* workloadName := fmt.Sprintf("k8s-playground-%s", item.ID[:8])
WorkloadName(id) == id

MsgUnsupported == "unsupported k8s version for DinD image; available versions: 1.33"
MsgUpdateGenerating == "failed to update item status to generating"
MsgProvision == "failed to create DinD workload"
MsgPodStatus == "failed to check pod status"
MsgTimeout == "timeout waiting for pod to be running"
MsgUpdateAvailable == "failed to update item status to available"
MsgCollect == "Failed to mark for shutdown during collection"
MsgUpdateTerminating == "failed to update item status to terminating"

\* ------------------------------------------------------------- QueueItem
NoItem ==
  [id |-> 0, owner |-> "", k8sVersion |-> "", status |-> "",
   errorMessage |-> "", statusUpdatedAt |-> 0, podId |-> EmptyPodID,
   expiresAt |-> 0, displayName |-> [chars |-> 0, bytes |-> 0],
   workloadType |-> ""]

VARIABLES
  queue,          \* Redis hash k8s_playground_queue: id -> stored QueueItem
  now,            \* wall clock
  issued,         \* ids handed out by uuid.New()
  workloads,      \* workload objects that exist in the outer cluster
  gw,             \* the Gateway request in flight
  gen,            \* Generator process
  col,            \* Collector process
  kil,            \* Killer process
  observedReady,  \* history: ids whose pod the Generator saw Running and Ready
  destroyed,      \* history: ids for which a DELETE request has succeeded
  requests,       \* rename and destroy requests served so far
  failures,       \* Redis commands that have failed so far
  restarts,       \* restarts of the Generator so far
  last,           \* the Gateway's last response
  term,           \* one terminal session: its resize queue and exec stream
  parse,          \* one terminal session: the keystroke parser's line buffer
  audit,          \* the audit pipeline: push goroutines, Redis list, sink, file
  logdir,         \* the audit log directory under hourly maintenance
  nfs,            \* the owner directories made on the NFS share
  adm,            \* the admin log query in flight and its answer
  probe,          \* the last call of Client.IsPodRunning and its result
  rd,             \* one terminal session: the frames WSClient.Read has taken
  sess,           \* one terminal session: its goroutines and its connection
  pf              \* the proxy requests and their scripts in the sandbox

vars ==
  <<queue, now, issued, workloads, gw, gen, col, kil, observedReady,
    destroyed, requests, failures, restarts, last, term, parse, audit,
    logdir, nfs, adm, probe, rd, sess, pf>>

\* the variables of command auditing and of the NFS share
auditVars == <<parse, audit, logdir, nfs, adm>>

\* the variables of the readiness probe, of the terminal connection and of
\* the HTTP proxy
sessionVars == <<probe, rd, sess, pf>>

MaxProxyRequests == 2    \* proxy requests served

\* ------------------------------------------------------------ RedisQueue
\* HSET QueueKey item.ID data
HSet(q, item) ==
  [i \in DOMAIN q \cup {item.id} |-> IF i = item.id THEN item ELSE q[i]]

\* HDEL QueueKey id
HDel(q, id) == [i \in DOMAIN q \ {id} |-> q[i]]

\* RedisQueue.UpdateItem, first half: item.StatusUpdatedAt = time.Now()
Stamp(item) == [item EXCEPT !.statusUpdatedAt = now]

\* RedisQueue.GetAllItems: the stored items, in the order of the map iteration
RECURSIVE SeqOfSet(_)
SeqOfSet(S) ==
  IF S = {} THEN <<>>
  ELSE LET x == CHOOSE y \in S : \A z \in S : y.id <= z.id
       IN <<x>> \o SeqOfSet(S \ {x})

GetAllItems == SeqOfSet({queue[i] : i \in DOMAIN queue})

\* RedisQueue.GetItemsByStatus
GetItemsByStatus(status) ==
  SelectSeq(GetAllItems, LAMBDA item : item.status = status)

\* the outcome of one Redis command: ok, or StorageUnavailable
Redis(ok) ==
  /\ ok \/ failures < MaxFailures
  /\ failures' = IF ok THEN failures ELSE failures + 1

\* ---------------------------------------------------------------- Init
Init ==
  /\ queue = <<>>
  /\ now = 0
  /\ issued = {}
  /\ workloads = {}
  /\ gw = [pc |-> "idle", op |-> "", item |-> NoItem, seen |-> ""]
  /\ gen = [pc |-> "idle", items |-> <<>>, item |-> NoItem, seen |-> "",
            podKnown |-> FALSE, deadline |-> 0]
  /\ col = [pc |-> "idle", items |-> <<>>, item |-> NoItem, seen |-> "",
            passNow |-> 0]
  /\ kil = [pc |-> "idle", items |-> <<>>, item |-> NoItem, seen |-> ""]
  /\ observedReady = {}
  /\ destroyed = {}
  /\ requests = 0
  /\ failures = 0
  /\ restarts = 0
  /\ last = [op |-> "", principal |-> "", id |-> 0, code |-> 0,
             name |-> [chars |-> 0, bytes |-> 0], upgraded |-> FALSE,
             exec |-> FALSE]
  /\ term = [sizeChan |-> <<>>, pc |-> "idle", size |-> "",
             submitted |-> <<>>, observed |-> <<>>]
  /\ parse = [buffer |-> <<>>, commands |-> <<>>, line |-> <<>>,
              lines |-> <<>>, frames |-> 0]
  /\ audit = [flushed |-> 0, pushing |-> {}, buffer |-> <<>>,
              sink |-> "brpop", entry |-> 0, logWriter |-> TRUE,
              fileDay |-> 0, today |-> 0, file |-> <<>>, faults |-> 0]
  /\ logdir = [t |-> 0,
               files |-> {[day |-> 0, gz |-> FALSE, modTime |-> 0,
                           entries |-> {}]},
               logged |-> {}, passed |-> TRUE, faults |-> 0]
  /\ nfs = {}
  /\ adm = [op |-> "", userId |-> "", environmentId |-> "", limit |-> 0,
            offset |-> 0, api |-> FALSE, logs |-> <<>>]
  /\ probe = [called |-> FALSE,
              pod |-> [getErr |-> TRUE, phase |-> "", cs |-> <<>>],
              result |-> [running |-> FALSE, err |-> FALSE]]
  /\ rd = [received |-> <<>>, stdin |-> <<>>, scanned |-> <<>>,
           resized |-> <<>>]
  /\ sess = [h |-> "start", e |-> "none", p |-> "none", mutex |-> "",
             writing |-> {}, chunks |-> 0, ws |-> "open", stdin |-> "open",
             ctx |-> "none", done |-> FALSE, conn |-> "open"]
  /\ pf = [r \in 1..MaxProxyRequests |->
             [req |-> "idle", script |-> "none", forward |-> "none",
              code |-> 0]]

\* time passes
Tick ==
  /\ now < MaxTime
  /\ now' = now + 1
  /\ UNCHANGED <<queue, issued, workloads, gw, gen, col, kil, observedReady,
                 destroyed, requests, failures, restarts, last, term, auditVars, sessionVars>>

\* --------------------------------------------------------------- Gateway
MaxDisplayName == 50

\* a display name, by its number of characters (runes) and its number of
\* bytes in UTF-8
EmptyName == [chars |-> 0, bytes |-> 0]
Ascii50 == [chars |-> MaxDisplayName, bytes |-> MaxDisplayName]
Ascii51 == [chars |-> MaxDisplayName + 1, bytes |-> MaxDisplayName + 1]
Wide50 == [chars |-> MaxDisplayName, bytes |-> 3 * MaxDisplayName]
CreateNames == {Ascii50, Ascii51, Wide50}
RenameNames == {Wide50, Ascii51, EmptyName}
\* the names of the requests that pass validation
AcceptedCreateNames == {Ascii50}
AcceptedRenameNames == {Wide50}

\* createEnvironment: len(req.DisplayName) > 50 is rejected
CreateNameValid(name) == name.bytes <= MaxDisplayName

\* updateEnvironmentDisplayName: binding:"required,max=50"
BindDisplayName(name) == name.bytes # 0 /\ name.chars <= MaxDisplayName

\* the owner check with every principal let through
OwnerCheck_Any(item, principal) == TRUE

\* if item.Owner != ownerID { ... StatusForbidden ... return }
OwnerCheck(item, principal) == item.owner = principal

\* the response of a request: the handler, the principal, the status code,
\* the display name of the request, and whether the WebSocket upgrade was
\* accepted and an exec stream was started
Response(op, principal, id, code, name) ==
  [op |-> op, principal |-> principal, id |-> id, code |-> code,
   name |-> name, upgraded |-> FALSE, exec |-> FALSE]

\* a request is served: it counts against the run's budget of requests
Served ==
  /\ requests < MaxRequests
  /\ requests' = requests + 1

\* the configured workload type taken as it is, without the fallback
WorkloadTypeOf_AsConfigured(cfgType) == cfgType

\* createEnvironment: workloadType := a.dindWorkloadType, with the fallback
WorkloadTypeOf(cfgType) ==
  IF cfgType # "statefulset" /\ cfgType # "deployment"
  THEN "statefulset" ELSE cfgType

\* createEnvironment: validation, WorkloadType fallback, AddItem
\* (requests are taken only while the bounded clock still has a tick after
\* the reservation's expiry, so that the expiry is part of every run)
CreateEnvironment(owner, version, name, cfgType, ok) ==
  /\ now + Lifetime < MaxTime
  /\ IF version = "" \/ ~CreateNameValid(name)
     THEN /\ Served
          /\ last' = Response("create", owner, 0, 400, name)
          /\ UNCHANGED <<queue, issued, failures>>
     ELSE /\ \E id \in Ids \ issued :
               /\ \A j \in Ids \ issued : id <= j
               /\ issued' = issued \cup {id}
               /\ LET workloadType == WorkloadTypeOf(cfgType)
                      item ==
                        [id |-> id, owner |-> owner, k8sVersion |-> version,
                         status |-> StatusPending, errorMessage |-> "",
                         statusUpdatedAt |-> now, podId |-> EmptyPodID,
                         expiresAt |-> now + Lifetime, displayName |-> name,
                         workloadType |-> workloadType]
                  IN /\ queue' = IF ok THEN HSet(queue, item) ELSE queue
                     /\ last' = Response("create", owner, id,
                                         IF ok THEN 201 ELSE 500, name)
          /\ Redis(ok)
          /\ UNCHANGED requests
  /\ UNCHANGED <<now, workloads, gw, gen, col, kil, observedReady, destroyed,
                 restarts, term, auditVars, sessionVars>>

\* updateEnvironmentDisplayName up to the call of UpdateItem:
\* binding, GetItem, owner check, the two assignments, the stamp
UpdateDisplayNameGet(principal, id, name) ==
  /\ gw.pc = "idle"
  /\ Served
  /\ IF ~BindDisplayName(name)
     THEN /\ last' = Response("rename", principal, id, 400, name)
          /\ UNCHANGED gw
     ELSE IF id \notin DOMAIN queue
     THEN /\ last' = Response("rename", principal, id, 404, name)
          /\ UNCHANGED gw
     ELSE IF ~OwnerCheck(queue[id], principal)
     THEN /\ last' = Response("rename", principal, id, 403, name)
          /\ UNCHANGED gw
     ELSE /\ gw' = [pc |-> "hset", op |-> "rename",
                    item |-> Stamp([queue[id] EXCEPT !.displayName = name]),
                    seen |-> queue[id].status]
          /\ UNCHANGED last
  /\ UNCHANGED <<queue, now, issued, workloads, gen, col, kil, observedReady,
                 destroyed, failures, restarts, term, auditVars, sessionVars>>

\* destroyEnvironment up to the call of UpdateItem
DestroyGet(principal, id) ==
  /\ gw.pc = "idle"
  /\ Served
  /\ IF id \notin DOMAIN queue
     THEN /\ last' = Response("destroy", principal, id, 404, EmptyName)
          /\ UNCHANGED gw
     ELSE IF ~OwnerCheck(queue[id], principal)
     THEN /\ last' = Response("destroy", principal, id, 403,
                              EmptyName)
          /\ UNCHANGED gw
     ELSE /\ gw' = [pc |-> "hset", op |-> "destroy",
                    item |-> Stamp([queue[id] EXCEPT !.status = StatusShutdown]),
                    seen |-> queue[id].status]
          /\ UNCHANGED last
  /\ UNCHANGED <<queue, now, issued, workloads, gen, col, kil, observedReady,
                 destroyed, failures, restarts, term, auditVars, sessionVars>>

\* the HSET of the Gateway's UpdateItem and the response (200 or 500)
GatewayHSet(ok) ==
  /\ gw.pc = "hset"
  /\ queue' = IF ok THEN HSet(queue, gw.item) ELSE queue
  /\ destroyed' = IF ok /\ gw.op = "destroy"
                  THEN destroyed \cup {gw.item.id} ELSE destroyed
  /\ last' = Response(gw.op, gw.item.owner, gw.item.id,
                      IF ok THEN 200 ELSE 500,
                      IF gw.op = "rename" THEN gw.item.displayName
                      ELSE EmptyName)
  /\ gw' = [pc |-> "idle", op |-> "", item |-> NoItem, seen |-> ""]
  /\ Redis(ok)
  /\ UNCHANGED <<now, issued, workloads, gen, col, kil, observedReady,
                 requests, restarts, term, auditVars, sessionVars>>

\* -------------------------------------------------------- Cluster Driver
ContainerStatuses ==
  {[ready |-> TRUE, waiting |-> "", terminated |-> FALSE]}
  \cup {[ready |-> FALSE, waiting |-> w, terminated |-> FALSE] :
          w \in {"", "ContainerCreating", "CrashLoopBackOff",
                 "ImagePullBackOff", "ErrImagePull"}}
  \cup {[ready |-> FALSE, waiting |-> "", terminated |-> TRUE]}

PodPhases == {"Pending", "Running", "Succeeded", "Failed"}

\* what GetPod can return for the sandbox pod: an error, or a pod status
PodObservations ==
  [getErr : {TRUE}, phase : {""}, cs : {<<>>}]
  \cup [getErr : {FALSE}, phase : PodPhases,
        cs : UNION {[1 .. n -> ContainerStatuses] : n \in 0 .. MaxContainers}]

\* the loop over pod.Status.ContainerStatuses in Client.IsPodRunning
RECURSIVE IsPodRunningLoop(_, _)
IsPodRunningLoop(cs, i) ==
  IF i > Len(cs) THEN [running |-> TRUE, err |-> FALSE]
  ELSE IF ~cs[i].ready
       THEN IF cs[i].waiting \in {"CrashLoopBackOff", "ImagePullBackOff",
                                  "ErrImagePull"}
            THEN [running |-> FALSE, err |-> TRUE]
            ELSE IF cs[i].terminated
                 THEN [running |-> FALSE, err |-> TRUE]
                 ELSE [running |-> FALSE, err |-> FALSE]
       ELSE IsPodRunningLoop(cs, i + 1)

\* IsPodRunning without the loop over the container statuses: a pod in phase
\* Running counts as running
IsPodRunning_PhaseOnly(pod) ==
  IF pod.getErr THEN [running |-> FALSE, err |-> TRUE]
  ELSE [running |-> pod.phase = "Running", err |-> FALSE]

\* Client.IsPodRunning
IsPodRunning(pod) ==
  IF pod.getErr THEN [running |-> FALSE, err |-> TRUE]
  ELSE IF pod.phase = "Failed" \/ pod.phase = "Succeeded"
       THEN [running |-> FALSE, err |-> FALSE]
  ELSE IF pod.phase # "Running" THEN [running |-> FALSE, err |-> FALSE]
  ELSE IF Len(pod.cs) = 0 THEN [running |-> FALSE, err |-> FALSE]
  ELSE IsPodRunningLoop(pod.cs, 1)

\* ------------------------------------ Gateway: terminal, services, proxy
\* the status check with every status let through
EnvironmentAvailable_Any(item) == TRUE

\* if item.Status != queue.StatusAvailable { ... StatusBadRequest ... return }
EnvironmentAvailable(item) == item.status = StatusAvailable

\* connectEnvironment, getEnvironmentServices, proxyToPod: the checks made on
\* the record that GetItem returned; 0 when the request may go on
ResourceCheck(item, principal) ==
  IF ~OwnerCheck(item, principal) THEN 403
  ELSE IF ~EnvironmentAvailable(item) THEN 400
  ELSE IF item.podId = EmptyPodID THEN 400
  ELSE 0

\* the pod name: "<PodID>-0" for a statefulset, GetPodNameForWorkload (which
\* can fail) for a deployment
PodNameResolved(item, resolved) ==
  item.workloadType # "deployment" \/ resolved

\* connectEnvironment and handleTerminalSession up to the exec: the upgrade is
\* accepted after the checks, and the exec is started if IsPodRunning says so
ConnectEnvironment(principal, id, resolved, pod) ==
  /\ Served
  /\ last' =
       IF id \notin DOMAIN queue
       THEN Response("connect", principal, id, 404, EmptyName)
       ELSE LET item == queue[id]
                code == ResourceCheck(item, principal)
                r == IsPodRunning(pod)
            IN IF code # 0
               THEN Response("connect", principal, id, code, EmptyName)
               ELSE IF ~PodNameResolved(item, resolved)
               THEN Response("connect", principal, id, 500, EmptyName)
               ELSE [Response("connect", principal, id, 101, EmptyName)
                       EXCEPT !.upgraded = TRUE,
                              !.exec = ~r.err /\ r.running]
  /\ UNCHANGED <<queue, now, issued, workloads, gw, gen, col, kil,
                 observedReady, destroyed, failures, restarts, term, auditVars, sessionVars>>

\* getEnvironmentServices: the checks, then GetServicesInPod (exec in the pod)
GetEnvironmentServices(principal, id, resolved) ==
  /\ Served
  /\ last' =
       IF id \notin DOMAIN queue
       THEN Response("services", principal, id, 404, EmptyName)
       ELSE LET item == queue[id]
                code == ResourceCheck(item, principal)
            IN IF code # 0
               THEN Response("services", principal, id, code, EmptyName)
               ELSE IF ~PodNameResolved(item, resolved)
               THEN Response("services", principal, id, 500, EmptyName)
               ELSE [Response("services", principal, id, 200, EmptyName)
                       EXCEPT !.exec = TRUE]
  /\ UNCHANGED <<queue, now, issued, workloads, gw, gen, col, kil,
                 observedReady, destroyed, failures, restarts, term, auditVars, sessionVars>>

\* proxyToPod: the checks, then proxyThroughDinDContainer (curl by exec in the
\* pod), which answers 200 or 503
ProxyToPod(principal, id, resolved, execOk) ==
  /\ Served
  /\ last' =
       IF id \notin DOMAIN queue
       THEN Response("proxy", principal, id, 404, EmptyName)
       ELSE LET item == queue[id]
                code == ResourceCheck(item, principal)
            IN IF code # 0
               THEN Response("proxy", principal, id, code, EmptyName)
               ELSE IF ~PodNameResolved(item, resolved)
               THEN Response("proxy", principal, id, 500, EmptyName)
               ELSE [Response("proxy", principal, id,
                              IF execOk THEN 200 ELSE 503, EmptyName)
                       EXCEPT !.exec = TRUE]
  /\ UNCHANGED <<queue, now, issued, workloads, gw, gen, col, kil,
                 observedReady, destroyed, failures, restarts, term, auditVars, sessionVars>>

\* ------------------------------------------------------------- Generator
GenIdle ==
  [pc |-> "idle", items |-> <<>>, item |-> NoItem, seen |-> "",
   podKnown |-> FALSE, deadline |-> 0]

\* processPendingItems: the next item of the range; processItem up to its
\* first UpdateItem
GenBegin(rest) ==
  IF rest = <<>> THEN GenIdle
  ELSE [pc |-> "hset_generating", items |-> Tail(rest),
        item |-> Stamp([Head(rest) EXCEPT !.status = StatusGenerating]),
        seen |-> Head(rest).status, podKnown |-> FALSE, deadline |-> 0]

\* processPendingItems without `item.ErrorMessage = err.Error()`
GenFail_NoMessage(g, msg) ==
  [g EXCEPT !.pc = "hset_error",
            !.item = Stamp([g.item EXCEPT !.status = StatusError])]

\* processPendingItems: processItem returned err
GenFail(g, msg) ==
  [g EXCEPT !.pc = "hset_error",
            !.item = Stamp([g.item EXCEPT !.status = StatusError,
                                          !.errorMessage = msg])]

\* the 5 s ticker: GetItemsByStatus(pending)
GeneratorPoll ==
  /\ gen.pc = "idle"
  /\ GetItemsByStatus(StatusPending) # <<>>
  /\ gen' = GenBegin(GetItemsByStatus(StatusPending))
  /\ UNCHANGED <<queue, now, issued, workloads, gw, col, kil, observedReady,
                 destroyed, requests, failures, restarts, last, term, auditVars, sessionVars>>

\* the image lookup with every version taken as configured
ImageTagKnown_Always(version) == TRUE

\* imageTag, ok := dindImageVersions[item.K8sVersion]
ImageTagKnown(version) == version \in dindImageVersions

\* processItem: the HSET of status generating, then the image lookup
GeneratorHSetGenerating(ok) ==
  /\ gen.pc = "hset_generating"
  /\ queue' = IF ok THEN HSet(queue, gen.item) ELSE queue
  /\ gen' =
       IF ~ok THEN GenFail(gen, MsgUpdateGenerating)
       ELSE IF ~ImageTagKnown(gen.item.k8sVersion)
            THEN [gen EXCEPT !.pc = "hset_error_version",
                             !.seen = StatusGenerating,
                             !.item = Stamp([gen.item EXCEPT
                                        !.status = StatusError,
                                        !.errorMessage = MsgUnsupported])]
            ELSE [gen EXCEPT !.pc = "provision", !.seen = StatusGenerating]
  /\ Redis(ok)
  /\ UNCHANGED <<now, issued, workloads, gw, col, kil, observedReady,
                 destroyed, requests, restarts, last, term, auditVars, sessionVars>>

\* processItem: the HSET of status error for an unsupported version; the
\* function then returns err to processPendingItems
GeneratorHSetErrorVersion(ok) ==
  /\ gen.pc = "hset_error_version"
  /\ queue' = IF ok THEN HSet(queue, gen.item) ELSE queue
  /\ gen' = GenFail([gen EXCEPT !.seen = IF ok THEN StatusError ELSE @],
                    MsgUnsupported)
  /\ Redis(ok)
  /\ UNCHANGED <<now, issued, workloads, gw, col, kil, observedReady,
                 destroyed, requests, restarts, last, term, auditVars, sessionVars>>

\* processItem: GetServiceClusterIP, EnsureNFSDirectory, CreateDinD*
GeneratorProvision(ok) ==
  /\ gen.pc = "provision"
  /\ LET name == WorkloadName(gen.item.id)
         workloadType ==
           IF gen.item.workloadType = "" THEN "statefulset"
           ELSE gen.item.workloadType
         created == ok /\ name \notin workloads
     IN /\ workloads' = IF created THEN workloads \cup {name} ELSE workloads
        /\ gen' =
             IF created
             THEN [gen EXCEPT !.pc = "wait",
                              !.item = [gen.item EXCEPT !.podId = name],
                              !.podKnown = (workloadType # "deployment"),
                              !.deadline = now + ReadyTimeout]
             ELSE GenFail(gen, MsgProvision)
  /\ UNCHANGED <<queue, now, issued, gw, col, kil, observedReady, destroyed,
                 requests, failures, restarts, last, term, auditVars, sessionVars>>

\* a pod that is Running with every container Ready
RunningAndReady(pod) ==
  /\ ~pod.getErr
  /\ pod.phase = "Running"
  /\ \A i \in 1 .. Len(pod.cs) : pod.cs[i].ready

\* processItem: one tick of the 10 s ticker in the readiness loop in which
\* the pod name is known or GetPodNameForWorkload resolves it (when it does
\* not, the loop continues and nothing changes)
GeneratorWaitPoll(pod) ==
  /\ gen.pc = "wait"
  /\ LET r == IsPodRunning(pod)
     IN /\ gen' =
             IF r.err THEN GenFail([gen EXCEPT !.podKnown = TRUE], MsgPodStatus)
             ELSE IF r.running
                  THEN [gen EXCEPT !.pc = "hset_available",
                                   !.podKnown = TRUE,
                                   !.item = Stamp([gen.item EXCEPT
                                              !.status = StatusAvailable])]
                  ELSE [gen EXCEPT !.podKnown = TRUE]
        /\ observedReady' =
             IF RunningAndReady(pod)
             THEN observedReady \cup {gen.item.id} ELSE observedReady
  /\ UNCHANGED <<queue, now, issued, workloads, gw, col, kil, destroyed,
                 requests, failures, restarts, last, term, auditVars, sessionVars>>

\* processItem: case <-timeout
GeneratorWaitTimeout ==
  /\ gen.pc = "wait"
  /\ now >= gen.deadline
  /\ gen' = GenFail(gen, MsgTimeout)
  /\ UNCHANGED <<queue, now, issued, workloads, gw, col, kil, observedReady,
                 destroyed, requests, failures, restarts, last, term, auditVars, sessionVars>>

\* processItem: the HSET of status available
GeneratorHSetAvailable(ok) ==
  /\ gen.pc = "hset_available"
  /\ queue' = IF ok THEN HSet(queue, gen.item) ELSE queue
  /\ gen' = IF ok THEN GenBegin(gen.items)
            ELSE GenFail(gen, MsgUpdateAvailable)
  /\ Redis(ok)
  /\ UNCHANGED <<now, issued, workloads, gw, col, kil, observedReady,
                 destroyed, requests, restarts, last, term, auditVars, sessionVars>>

\* processPendingItems: the HSET of status error, then the next item
GeneratorHSetError(ok) ==
  /\ gen.pc = "hset_error"
  /\ queue' = IF ok THEN HSet(queue, gen.item) ELSE queue
  /\ gen' = GenBegin(gen.items)
  /\ Redis(ok)
  /\ UNCHANGED <<now, issued, workloads, gw, col, kil, observedReady,
                 destroyed, requests, restarts, last, term, auditVars, sessionVars>>

\* the Generator process is stopped (signal or crash) and started again
GeneratorRestart ==
  /\ gen.pc # "idle"
  /\ gen' = GenIdle
  /\ restarts < MaxRestarts
  /\ restarts' = restarts + 1
  /\ UNCHANGED <<queue, now, issued, workloads, gw, col, kil, observedReady,
                 destroyed, requests, failures, last, term, auditVars, sessionVars>>

\* ---------------------------------------------------------------- Killer
KilIdle == [pc |-> "idle", items |-> <<>>, item |-> NoItem, seen |-> ""]

\* processShutdownItem without `item.Status = queue.StatusTerminated`: the
\* record is written back as it was read
KilBegin_Unmarked(rest) ==
  IF rest = <<>> THEN KilIdle
  ELSE [pc |-> "hset_terminated", items |-> Tail(rest),
        item |-> Stamp(Head(rest)), seen |-> Head(rest).status]

\* processShutdownItems: the next item of the range; processShutdownItem up
\* to its UpdateItem
KilBegin(rest) ==
  IF rest = <<>> THEN KilIdle
  ELSE [pc |-> "hset_terminated", items |-> Tail(rest),
        item |-> Stamp([Head(rest) EXCEPT !.status = StatusTerminated]),
        seen |-> Head(rest).status]

\* the 10 s ticker: GetItemsByStatus(shutdown)
KillerPoll ==
  /\ kil.pc = "idle"
  /\ GetItemsByStatus(StatusShutdown) # <<>>
  /\ kil' = KilBegin(GetItemsByStatus(StatusShutdown))
  /\ UNCHANGED <<queue, now, issued, workloads, gw, gen, col, observedReady,
                 destroyed, requests, failures, restarts, last, term, auditVars, sessionVars>>

\* processShutdownItem: the HSET of status terminated
KillerHSetTerminated(ok) ==
  /\ kil.pc = "hset_terminated"
  /\ queue' = IF ok THEN HSet(queue, kil.item) ELSE queue
  /\ kil' =
       IF ~ok
       THEN [kil EXCEPT !.pc = "hset_error",
                        !.item = Stamp([kil.item EXCEPT
                                   !.status = StatusError,
                                   !.errorMessage = MsgUpdateTerminating])]
       ELSE IF kil.item.podId # EmptyPodID
            THEN [kil EXCEPT !.pc = "delete", !.seen = StatusTerminated]
            ELSE KilBegin(kil.items)
  /\ Redis(ok)
  /\ UNCHANGED <<now, issued, workloads, gw, gen, col, observedReady,
                 destroyed, requests, restarts, last, term, auditVars, sessionVars>>

\* what the outer API answers to the Delete calls of one workload: deleted,
\* NotFound, or another error
DeleteResults == {"", "NotFound", "Other"}

\* Client.DeleteDinDStatefulSet / DeleteDinDDeployment: the error returned
\* (err != nil && !apierrors.IsNotFound(err))
DeleteDinDWorkload(apiErr) == apiErr # "" /\ apiErr # "NotFound"

\* processShutdownItem with `return err` in place of the log line: the error
\* of the delete call reaches processShutdownItems
KilAfterDelete_ReturnErr(k, err) ==
  IF err
  THEN [k EXCEPT !.pc = "hset_error",
                 !.item = Stamp([k.item EXCEPT
                            !.status = StatusError,
                            !.errorMessage = "failed to delete workload"])]
  ELSE KilBegin(k.items)

\* processShutdownItem after the delete call: a failure is logged, the
\* function returns nil and the range goes on
KilAfterDelete(k, err) == KilBegin(k.items)

\* processShutdownItem: DeleteDinDDeployment or DeleteDinDStatefulSet
KillerDelete(apiErr) ==
  /\ kil.pc = "delete"
  /\ apiErr = "" => kil.item.podId \in workloads
  /\ apiErr = "NotFound" => kil.item.podId \notin workloads
  /\ workloads' = IF apiErr = "" THEN workloads \ {kil.item.podId}
                  ELSE workloads
  /\ kil' = KilAfterDelete(kil, DeleteDinDWorkload(apiErr))
  /\ UNCHANGED <<queue, now, issued, gw, gen, col, observedReady, destroyed,
                 requests, failures, restarts, last, term, auditVars, sessionVars>>

\* processShutdownItems: the HSET of status error, then the next item
KillerHSetError(ok) ==
  /\ kil.pc = "hset_error"
  /\ queue' = IF ok THEN HSet(queue, kil.item) ELSE queue
  /\ kil' = KilBegin(kil.items)
  /\ Redis(ok)
  /\ UNCHANGED <<now, issued, workloads, gw, gen, col, observedReady,
                 destroyed, requests, restarts, last, term, auditVars, sessionVars>>

\* ------------------------------------------------------------- Collector
\* IsExpired with !time.Now().Before(q.ExpiresAt): expired at the instant of
\* expiry already
IsExpired_NotBefore(item) == now >= item.expiresAt

\* QueueItem.IsExpired: time.Now().After(q.ExpiresAt)
IsExpired(item) == now > item.expiresAt

\* QueueItem.ShouldBeCollected
ShouldBeCollected(item) ==
  LET terminalStates == <<StatusShutdown, StatusTerminated, StatusError>>
  IN IF \E i \in 1 .. Len(terminalStates) : item.status = terminalStates[i]
     THEN FALSE
     ELSE IsExpired(item)

ColIdle ==
  [pc |-> "idle", items |-> <<>>, item |-> NoItem, seen |-> "", passNow |-> 0]

\* cleanupItems: the range over allItems up to the next UpdateItem or
\* DeleteItem; passNow is the `now` taken at the start of the pass
RECURSIVE ColAdvance(_, _)
ColAdvance(rest, passNow) ==
  IF rest = <<>> THEN ColIdle
  ELSE LET item == Head(rest)
       IN IF ShouldBeCollected(item)
          THEN [pc |-> "hset_shutdown", items |-> Tail(rest),
                item |-> Stamp([item EXCEPT !.status = StatusShutdown]),
                seen |-> item.status, passNow |-> passNow]
          ELSE IF /\ item.status = StatusTerminated
                  /\ passNow - item.statusUpdatedAt > TerminatedGracePeriod
               THEN [pc |-> "delete", items |-> Tail(rest), item |-> item,
                     seen |-> item.status, passNow |-> passNow]
               ELSE ColAdvance(Tail(rest), passNow)

\* the 30 s ticker: GetAllItems, now := time.Now(), and the range up to the
\* first item that needs a write (a pass that finds none changes nothing)
CollectorPoll ==
  /\ col.pc = "idle"
  /\ col' = ColAdvance(GetAllItems, now)
  /\ UNCHANGED <<queue, now, issued, workloads, gw, gen, kil, observedReady,
                 destroyed, requests, failures, restarts, last, term, auditVars, sessionVars>>

\* cleanupItems: the HSET of status shutdown
CollectorHSetShutdown(ok) ==
  /\ col.pc = "hset_shutdown"
  /\ Redis(ok)
  /\ queue' = IF ok THEN HSet(queue, col.item) ELSE queue
  /\ col' =
       IF ok THEN ColAdvance(col.items, col.passNow)
       ELSE [col EXCEPT !.pc = "hset_error",
                        !.item = Stamp([col.item EXCEPT
                                   !.status = StatusError,
                                   !.errorMessage = MsgCollect])]
  /\ UNCHANGED <<now, issued, workloads, gw, gen, kil, observedReady,
                 destroyed, requests, restarts, last, term, auditVars, sessionVars>>

\* cleanupItems: the HSET of status error after the failed write
CollectorHSetError(ok) ==
  /\ col.pc = "hset_error"
  /\ Redis(ok)
  /\ queue' = IF ok THEN HSet(queue, col.item) ELSE queue
  /\ col' = ColAdvance(col.items, col.passNow)
  /\ UNCHANGED <<now, issued, workloads, gw, gen, kil, observedReady,
                 destroyed, requests, restarts, last, term, auditVars, sessionVars>>

\* cleanupItems: DeleteItem of a record terminated for longer than the grace
CollectorDelete(ok) ==
  /\ col.pc = "delete"
  /\ Redis(ok)
  /\ queue' = IF ok THEN HDel(queue, col.item.id) ELSE queue
  /\ col' = ColAdvance(col.items, col.passNow)
  /\ UNCHANGED <<now, issued, workloads, gw, gen, kil, observedReady,
                 destroyed, requests, restarts, last, term, auditVars, sessionVars>>

\* ------------------------------------------------------------------ Next
Next ==
  \/ Tick
  \/ \E owner \in Owners, version \in RequestedVersions,
        name \in AcceptedCreateNames, cfgType \in ConfiguredWorkloadTypes,
        ok \in BOOLEAN :
       CreateEnvironment(owner, version, name, cfgType, ok)
  \/ \E principal \in Owners, id \in Ids, name \in AcceptedRenameNames :
       UpdateDisplayNameGet(principal, id, name)
  \/ \E principal \in Owners, id \in Ids : DestroyGet(principal, id)
  \/ \E ok \in BOOLEAN : GatewayHSet(ok)
  \/ GeneratorPoll
  \/ \E ok \in BOOLEAN : GeneratorHSetGenerating(ok)
  \/ \E ok \in BOOLEAN : GeneratorHSetErrorVersion(ok)
  \/ \E ok \in BOOLEAN : GeneratorProvision(ok)
  \/ \E pod \in PodObservations : GeneratorWaitPoll(pod)
  \/ GeneratorWaitTimeout
  \/ \E ok \in BOOLEAN : GeneratorHSetAvailable(ok)
  \/ \E ok \in BOOLEAN : GeneratorHSetError(ok)
  \/ GeneratorRestart
  \/ KillerPoll
  \/ \E ok \in BOOLEAN : KillerHSetTerminated(ok)
  \/ \E apiErr \in DeleteResults : KillerDelete(apiErr)
  \/ \E ok \in BOOLEAN : KillerHSetError(ok)
  \/ CollectorPoll
  \/ \E ok \in BOOLEAN : CollectorHSetShutdown(ok)
  \/ \E ok \in BOOLEAN : CollectorHSetError(ok)
  \/ \E ok \in BOOLEAN : CollectorDelete(ok)

Spec == Init /\ [][Next]_vars

\* the loops keep running and time passes; requests, Redis failures and
\* restarts of the Generator need not happen
Fairness ==
  /\ WF_vars(Tick)
  /\ WF_vars(GeneratorPoll)
  /\ WF_vars(\E ok \in BOOLEAN : GeneratorHSetGenerating(ok))
  /\ WF_vars(\E ok \in BOOLEAN : GeneratorHSetErrorVersion(ok))
  /\ WF_vars(\E ok \in BOOLEAN : GeneratorProvision(ok))
  /\ WF_vars(\E pod \in PodObservations : GeneratorWaitPoll(pod))
  /\ WF_vars(GeneratorWaitTimeout)
  /\ WF_vars(\E ok \in BOOLEAN : GeneratorHSetAvailable(ok))
  /\ WF_vars(\E ok \in BOOLEAN : GeneratorHSetError(ok))
  /\ WF_vars(KillerPoll)
  /\ WF_vars(\E ok \in BOOLEAN : KillerHSetTerminated(ok))
  /\ WF_vars(\E apiErr \in DeleteResults : KillerDelete(apiErr))
  /\ WF_vars(\E ok \in BOOLEAN : KillerHSetError(ok))
  /\ WF_vars(CollectorPoll)
  /\ WF_vars(\E ok \in BOOLEAN : CollectorHSetShutdown(ok))
  /\ WF_vars(\E ok \in BOOLEAN : CollectorHSetError(ok))
  /\ WF_vars(\E ok \in BOOLEAN : CollectorDelete(ok))

LiveSpec == Spec /\ Fairness

\* ----------------------------------------------------------- GatewaySpec
\* The Gateway's handlers under requests of every principal and with every
\* display name, the reads for terminal, services and proxy included, next
\* to the loops running with a Redis that answers and a Generator that is
\* not restarted.
GatewayNext ==
  \/ Tick
  \/ \E owner \in Owners, version \in RequestedVersions, name \in CreateNames,
        cfgType \in ConfiguredWorkloadTypes :
       CreateEnvironment(owner, version, name, cfgType, TRUE)
  \/ \E principal \in Principals, id \in Ids, name \in RenameNames :
       UpdateDisplayNameGet(principal, id, name)
  \/ \E principal \in Principals, id \in Ids : DestroyGet(principal, id)
  \/ GatewayHSet(TRUE)
  \/ \E principal \in Principals, id \in Ids, resolved \in BOOLEAN,
        pod \in PodObservations :
       ConnectEnvironment(principal, id, resolved, pod)
  \/ \E principal \in Principals, id \in Ids, resolved \in BOOLEAN :
       GetEnvironmentServices(principal, id, resolved)
  \/ \E principal \in Principals, id \in Ids, resolved \in BOOLEAN,
        execOk \in BOOLEAN :
       ProxyToPod(principal, id, resolved, execOk)
  \/ GeneratorPoll
  \/ GeneratorHSetGenerating(TRUE)
  \/ GeneratorHSetErrorVersion(TRUE)
  \/ \E ok \in BOOLEAN : GeneratorProvision(ok)
  \/ \E pod \in PodObservations : GeneratorWaitPoll(pod)
  \/ GeneratorWaitTimeout
  \/ GeneratorHSetAvailable(TRUE)
  \/ GeneratorHSetError(TRUE)
  \/ KillerPoll
  \/ KillerHSetTerminated(TRUE)
  \/ \E apiErr \in DeleteResults : KillerDelete(apiErr)
  \/ CollectorPoll
  \/ CollectorHSetShutdown(TRUE)
  \/ CollectorDelete(TRUE)

GatewaySpec == Init /\ [][GatewayNext]_vars

\* ------------------------------------------------------------ ResizeSpec
\* One terminal session: the WebSocket reader calls TerminalSession.Resize
\* for every resize frame, the exec stream calls TerminalSession.Next.
MaxResizes == 3      \* resize frames submitted in one session

\* sizeChan: make(chan *k8s.TerminalSize, 2)
ResizeQueueDepth == 2

\* the sizes (cols, rows) of the resize frames
Sizes == {"A", "B", "C"}

\* the variables of the reservation lifecycle, which a terminal session
\* leaves alone
lifecycleVars ==
  <<queue, now, issued, workloads, gw, gen, col, kil, observedReady,
    destroyed, requests, failures, restarts, last>>

\* Resize is called: the outer select sends at once when the channel has
\* room (the timer of time.After is not ready then), otherwise it blocks
ResizeCall(size) ==
  /\ term.pc = "idle"
  /\ Len(term.submitted) < MaxResizes
  /\ term' =
       IF Len(term.sizeChan) < ResizeQueueDepth
       THEN [term EXCEPT !.sizeChan = Append(@, size),
                         !.submitted = Append(@, size)]
       ELSE [term EXCEPT !.pc = "select", !.size = size,
                         !.submitted = Append(@, size)]
  /\ UNCHANGED <<lifecycleVars, auditVars, sessionVars>>

\* the outer select, case t.sizeChan <- size: room has appeared
ResizeSend ==
  /\ term.pc = "select"
  /\ Len(term.sizeChan) < ResizeQueueDepth
  /\ term' = [term EXCEPT !.sizeChan = Append(@, term.size),
                          !.pc = "idle", !.size = ""]
  /\ UNCHANGED <<lifecycleVars, auditVars, sessionVars>>

\* the outer select, case <-time.After(100 * time.Millisecond); when the
\* channel has room at that moment too, select picks either case
ResizeTimeout ==
  /\ term.pc = "select"
  /\ term' = [term EXCEPT !.pc = "timeout"]
  /\ UNCHANGED <<lifecycleVars, auditVars, sessionVars>>

\* the inner selects: receive the oldest size and send the new one (there is
\* room after the receive, Resize being the only sender), or, when the
\* channel is empty, default: the new size is not sent
ResizeReplace ==
  /\ term.pc = "timeout"
  /\ term' =
       IF term.sizeChan # <<>>
       THEN [term EXCEPT !.sizeChan = Append(Tail(@), term.size),
                         !.pc = "idle", !.size = ""]
       ELSE [term EXCEPT !.pc = "idle", !.size = ""]
  /\ UNCHANGED <<lifecycleVars, auditVars, sessionVars>>

\* TerminalSession.Next, case size := <-t.sizeChan: the exec stream receives
\* the oldest size
ExecNext ==
  /\ term.sizeChan # <<>>
  /\ term' = [term EXCEPT !.sizeChan = Tail(@),
                          !.observed = Append(@, Head(term.sizeChan))]
  /\ UNCHANGED <<lifecycleVars, auditVars, sessionVars>>

ResizeNext ==
  \/ \E size \in Sizes : ResizeCall(size)
  \/ ResizeSend
  \/ ResizeTimeout
  \/ ResizeReplace
  \/ ExecNext

ResizeSpec == Init /\ [][ResizeNext]_vars

\* ------------------------------------------------- the keystroke parser
\* WSClient.Read hands every stdin frame of a session to
\* ParseCommandFromWebSocketDataWithSession, which keeps the session's line
\* buffer in commandBuffer.
MaxFrames == 3       \* stdin frames received in one session
MaxFrameLen == 2     \* bytes in one stdin frame

\* the bytes of the frames: two letters and the space (printable ASCII),
\* backspace (0x08) and carriage return (0x0d)
BS == "\\b"
CR == "\\r"
PrintableBytes == {"l", "s", " "}
WhiteSpace == {" ", CR}
StdinBytes == PrintableBytes \cup {BS, CR}

StdinFrames ==
  UNION {[1..n -> StdinBytes] : n \in 1..MaxFrameLen}

\* strings.Contains(str, "\r") || strings.Contains(str, "\n")
ContainsNewline(data) == \E i \in 1..Len(data) : data[i] = CR

\* strings.TrimSpace
RECURSIVE TrimLeft(_)
TrimLeft(str) ==
  IF str # <<>> /\ Head(str) \in WhiteSpace THEN TrimLeft(Tail(str)) ELSE str

RECURSIVE TrimRight(_)
TrimRight(str) ==
  IF str # <<>> /\ str[Len(str)] \in WhiteSpace
  THEN TrimRight(SubSeq(str, 1, Len(str) - 1))
  ELSE str

TrimSpace(str) == TrimRight(TrimLeft(str))

\* the loop "for _, r := range str": r >= 32 && r <= 126 || r == '\t'
PrintableOf(data) == SelectSeq(data, LAMBDA b : b \in PrintableBytes)

\* ParseCommandFromWebSocketDataWithSession on one frame, with the session's
\* buffer: the command it returns and the buffer it stores.  A frame that
\* holds a newline returns the buffer as it was before the frame; the
\* backspace is handled when it is the whole frame.
ParseCommandFromWebSocketDataWithSession(data, currentBuffer) ==
  IF ContainsNewline(data)
  THEN [command |-> TrimSpace(currentBuffer), buffer |-> <<>>]
  ELSE IF data = <<BS>>
  THEN [command |-> <<>>,
        buffer |-> IF currentBuffer # <<>>
                   THEN SubSeq(currentBuffer, 1, Len(currentBuffer) - 1)
                   ELSE currentBuffer]
  ELSE [command |-> <<>>, buffer |-> currentBuffer \o PrintableOf(data)]

\* the rule byte by byte: a printable byte is appended to the line, a
\* backspace removes the last byte, a newline flushes the line
RECURSIVE ByteRule(_, _, _)
ByteRule(data, line, lines) ==
  IF data = <<>> THEN [line |-> line, lines |-> lines]
  ELSE LET b == Head(data)
       IN IF b = CR
          THEN ByteRule(Tail(data), <<>>,
                        IF TrimSpace(line) # <<>>
                        THEN Append(lines, TrimSpace(line)) ELSE lines)
          ELSE IF b = BS
          THEN ByteRule(Tail(data),
                        IF line # <<>> THEN SubSeq(line, 1, Len(line) - 1)
                        ELSE line, lines)
          ELSE ByteRule(Tail(data), Append(line, b), lines)

\* WSClient.Read on one stdin frame: a command that is not empty is logged
StdinFrame(data) ==
  /\ parse.frames < MaxFrames
  /\ LET r == ParseCommandFromWebSocketDataWithSession(data, parse.buffer)
         b == ByteRule(data, parse.line, parse.lines)
     IN parse' = [buffer |-> r.buffer,
                  commands |-> IF r.command # <<>>
                               THEN Append(parse.commands, r.command)
                               ELSE parse.commands,
                  line |-> b.line,
                  lines |-> b.lines,
                  frames |-> parse.frames + 1]
  /\ UNCHANGED <<lifecycleVars, sessionVars, term, audit, logdir, nfs, adm>>

ParseNext == \E data \in StdinFrames : StdinFrame(data)

ParseSpec == Init /\ [][ParseNext]_vars

\* ---------------------------------------------------- the audit pipeline
\* The Gateway pushes each flushed command to the Redis list
\* command_log_buffer from a goroutine of its own; the sink
\* (logging-controller) pops the list and appends to the daily log file.
MaxCommands == 3     \* commands flushed in one session
MaxFaults == 2       \* failed Redis commands, failed file operations, crashes
MaxDays == 1         \* midnights that pass

Entries == 1..MaxCommands

\* WSClient.Read: the parser has returned a command that is not empty;
\* "go func() { ... }()" starts the push of this command
CommandFlushed ==
  /\ audit.flushed < MaxCommands
  /\ audit' = [audit EXCEPT !.flushed = @ + 1,
                            !.pushing = @ \cup {audit.flushed + 1}]
  /\ UNCHANGED <<lifecycleVars, sessionVars, term, parse, logdir, nfs, adm>>

\* the record LogCommand and writeLogToFile append to the file
FileRecord(n, by) == [entry |-> n, by |-> by]

\* the goroutine of one command: LogCommandToBuffer (LPUSH at the head of
\* the list); when it fails, LogCommand, which appends to the log file of the
\* Gateway's own LoggingController, and whose error is only logged
GatewayPush(n, ok, fileOk) ==
  /\ n \in audit.pushing
  /\ ok => fileOk
  /\ audit.faults + (IF ok THEN 0 ELSE 1) + (IF fileOk THEN 0 ELSE 1)
       <= MaxFaults
  /\ audit' =
       [audit EXCEPT
          !.pushing = @ \ {n},
          !.buffer = IF ok THEN <<n>> \o @ ELSE @,
          !.file = IF ~ok /\ fileOk THEN Append(@, FileRecord(n, "gateway"))
                   ELSE @,
          !.faults = @ + (IF ok THEN 0 ELSE 1) + (IF fileOk THEN 0 ELSE 1)]
  /\ UNCHANGED <<lifecycleVars, sessionVars, term, parse, logdir, nfs, adm>>

\* processLogBuffer: BRPOP takes the entry at the tail of the list
SinkPop ==
  /\ audit.sink = "brpop"
  /\ audit.buffer # <<>>
  /\ audit' = [audit EXCEPT
                 !.sink = "write",
                 !.entry = audit.buffer[Len(audit.buffer)],
                 !.buffer = SubSeq(@, 1, Len(@) - 1)]
  /\ UNCHANGED <<lifecycleVars, sessionVars, term, parse, logdir, nfs, adm>>

\* rotateLogFileIfNeeded: nothing when the open file is today's; otherwise
\* the file is closed (logWriter = nil) and today's file is opened, and when
\* OpenFile fails logWriter stays nil
NeedsOpen == ~audit.logWriter \/ audit.fileDay # audit.today

rotateLogFileIfNeeded(a, openOk) ==
  IF ~NeedsOpen THEN a
  ELSE IF openOk THEN [a EXCEPT !.logWriter = TRUE, !.fileDay = audit.today]
  ELSE [a EXCEPT !.logWriter = FALSE]

\* writeLogToFile and the branch of processLogBuffer on its result: a failed
\* rotation is only logged; with logWriter nil nothing is written and nil is
\* returned; a failed write sends the sink to the re-queue
SinkWrite(openOk, writeOk) ==
  /\ audit.sink = "write"
  /\ ~NeedsOpen => openOk
  /\ (NeedsOpen /\ ~openOk) => writeOk
  /\ audit.faults + (IF openOk THEN 0 ELSE 1) + (IF writeOk THEN 0 ELSE 1)
       <= MaxFaults
  /\ LET a == rotateLogFileIfNeeded(audit, openOk)
     IN audit' =
          [a EXCEPT
             !.file = IF a.logWriter /\ writeOk
                      THEN Append(@, FileRecord(audit.entry, "sink")) ELSE @,
             !.sink = IF a.logWriter /\ ~writeOk THEN "requeue" ELSE "brpop",
             !.entry = IF a.logWriter /\ ~writeOk THEN @ ELSE 0,
             !.faults = @ + (IF openOk THEN 0 ELSE 1)
                          + (IF writeOk THEN 0 ELSE 1)]
  /\ UNCHANGED <<lifecycleVars, sessionVars, term, parse, logdir, nfs, adm>>

\* processLogBuffer after a failed write: LPUSH puts the entry back at the
\* head of the list; when that fails too, the failure is only logged
SinkRequeue(ok) ==
  /\ audit.sink = "requeue"
  /\ ok \/ audit.faults < MaxFaults
  /\ audit' = [audit EXCEPT
                 !.buffer = IF ok THEN <<audit.entry>> \o @ ELSE @,
                 !.sink = "brpop",
                 !.entry = 0,
                 !.faults = IF ok THEN @ ELSE @ + 1]
  /\ UNCHANGED <<lifecycleVars, sessionVars, term, parse, logdir, nfs, adm>>

\* the date changes
Midnight ==
  /\ audit.today < MaxDays
  /\ audit' = [audit EXCEPT !.today = @ + 1]
  /\ UNCHANGED <<lifecycleVars, sessionVars, term, parse, logdir, nfs, adm>>

\* Start, case <-ticker.C: rotateLogFileIfNeeded
HourlyRotate(openOk) ==
  /\ NeedsOpen
  /\ openOk \/ audit.faults < MaxFaults
  /\ audit' = [rotateLogFileIfNeeded(audit, openOk) EXCEPT
                 !.faults = IF openOk THEN @ ELSE @ + 1]
  /\ UNCHANGED <<lifecycleVars, sessionVars, term, parse, logdir, nfs, adm>>

\* the sink process dies and is started again: what processLogBuffer held in
\* memory is gone, Start opens today's file
SinkCrash ==
  /\ audit.faults < MaxFaults
  /\ audit' = [audit EXCEPT !.sink = "brpop", !.entry = 0,
                            !.logWriter = TRUE, !.fileDay = audit.today,
                            !.faults = @ + 1]
  /\ UNCHANGED <<lifecycleVars, sessionVars, term, parse, logdir, nfs, adm>>

AuditNext ==
  \/ CommandFlushed
  \/ \E n \in Entries, ok, fileOk \in BOOLEAN : GatewayPush(n, ok, fileOk)
  \/ SinkPop
  \/ \E openOk, writeOk \in BOOLEAN : SinkWrite(openOk, writeOk)
  \/ \E ok \in BOOLEAN : SinkRequeue(ok)
  \/ Midnight
  \/ \E openOk \in BOOLEAN : HourlyRotate(openOk)
  \/ SinkCrash

AuditSpec == Init /\ [][AuditNext]_vars

\* the goroutines run, and the loop of processLogBuffer goes on
AuditFairness ==
  /\ \A n \in Entries : WF_vars(\E ok, fileOk \in BOOLEAN :
                                   GatewayPush(n, ok, fileOk))
  /\ WF_vars(SinkPop)
  /\ WF_vars(\E openOk, writeOk \in BOOLEAN : SinkWrite(openOk, writeOk))
  /\ WF_vars(\E ok \in BOOLEAN : SinkRequeue(ok))

LiveAuditSpec == AuditSpec /\ AuditFairness

\* ------------------------------------------------------ the admin query
\* GET /api/admin/logs of the Gateway (getCommandLogs), which asks the sink's
\* internal API (HandleAdminLogs) when it is configured and reads the log
\* files itself otherwise, or when the API call fails.
NoFilter == ""
QueryUsers == {NoFilter, "alice", "bob"}
QueryEnvironments == {NoFilter, "env1", "env2"}
QueryLimits == {1, 2, 100}
QueryOffsets == {0, 1, 2}

\* the entries of the log files, in the order readLogsFromFile returns them;
\* the time stamps differ
StoredLogs ==
  << [id |-> 1, userId |-> "alice", environmentId |-> "env1", timestamp |-> 2],
     [id |-> 2, userId |-> "bob", environmentId |-> "env2", timestamp |-> 4],
     [id |-> 3, userId |-> "alice", environmentId |-> "env2", timestamp |-> 1],
     [id |-> 4, userId |-> "alice", environmentId |-> "env1", timestamp |-> 3] >>

\* sort.Slice(allLogs, func(i, j) { return Timestamp[i].After(Timestamp[j]) })
RECURSIVE SortNewestFirst(_)
SortNewestFirst(logs) ==
  IF logs = <<>> THEN <<>>
  ELSE LET i == CHOOSE k \in DOMAIN logs :
                  \A l \in DOMAIN logs : logs[k].timestamp >= logs[l].timestamp
       IN <<logs[i]>>
            \o SortNewestFirst([k \in 1..(Len(logs) - 1) |->
                                  IF k < i THEN logs[k] ELSE logs[k + 1]])

\* LoggingController.GetCommandLogs: filter, sort, then the page
GetCommandLogs(userID, environmentID, limit, offset) ==
  LET allLogs ==
        SortNewestFirst(SelectSeq(StoredLogs, LAMBDA e :
          /\ userID = NoFilter \/ e.userId = userID
          /\ environmentID = NoFilter \/ e.environmentId = environmentID))
      end == IF offset + limit > Len(allLogs) THEN Len(allLogs)
             ELSE offset + limit
  IN IF offset >= Len(allLogs) THEN <<>>
     ELSE SubSeq(allLogs, offset + 1, end)

\* LoggingController.HandleAdminLogs: of the query string only limit is read
HandleAdminLogs(userID, environmentID, limit, offset) ==
  GetCommandLogs(NoFilter, NoFilter, limit, 0)

\* AppController.getCommandLogs: through the API when it is configured and
\* answers, otherwise directly
AdminLogs(userID, environmentID, limit, offset, apiConfigured, apiOk) ==
  /\ apiOk => apiConfigured
  /\ adm' = [op |-> "logs", userId |-> userID,
             environmentId |-> environmentID, limit |-> limit,
             offset |-> offset, api |-> apiOk,
             logs |-> IF apiConfigured /\ apiOk
                      THEN HandleAdminLogs(userID, environmentID, limit,
                                           offset)
                      ELSE GetCommandLogs(userID, environmentID, limit,
                                          offset)]
  /\ UNCHANGED <<lifecycleVars, sessionVars, term, parse, audit, logdir, nfs>>

QueryNext ==
  \E userID \in QueryUsers, environmentID \in QueryEnvironments,
     limit \in QueryLimits, offset \in QueryOffsets,
     apiConfigured, apiOk \in BOOLEAN :
    AdminLogs(userID, environmentID, limit, offset, apiConfigured, apiOk)

QuerySpec == Init /\ [][QueryNext]_vars

\* --------------------------------------------- the hourly maintenance
\* Start, case <-ticker.C: rotateLogFileIfNeeded and compressOldLogFiles,
\* which ends with cleanupOldCompressedFiles.  The clock of this part counts
\* the ticks of that ticker.
HoursPerDay == 2            \* ticks of the maintenance ticker in one day
MaxHours == 66              \* ticks that pass: 33 days
MaxLogged == 1              \* entries the sink writes
MaxMaintenanceFaults == 1   \* failed file operations and missed ticks

\* cutoffDate := time.Now().AddDate(0, 0, -30)
RetentionDays == 30

DayOf(t) == t \div HoursPerDay
Today == DayOf(logdir.t)

\* commands-<day>.log, or commands-<day>.log.gz when gz
LogFile(day, gz, modTime, entries) ==
  [day |-> day, gz |-> gz, modTime |-> modTime, entries |-> entries]

\* writeLogToFile at time logdir.t: the entry goes to the file of today
LogWritten ==
  /\ Cardinality(logdir.logged) < MaxLogged
  /\ logdir.t \notin logdir.logged
  /\ LET cur == {f \in logdir.files : f.day = Today /\ ~f.gz}
         old == IF cur = {} THEN {} ELSE (CHOOSE f \in cur : TRUE).entries
     IN logdir' =
          [logdir EXCEPT
             !.files = (@ \ cur)
                         \cup {LogFile(Today, FALSE, logdir.t,
                                       old \cup {logdir.t})},
             !.logged = @ \cup {logdir.t}]
  /\ UNCHANGED <<lifecycleVars, sessionVars, term, parse, audit, nfs, adm>>

\* rotateLogFileIfNeeded at time t: OpenFile with O_CREATE makes the file of
\* the day when it is not there
Rotated(files, t) ==
  IF \E f \in files : f.day = DayOf(t) /\ ~f.gz THEN files
  ELSE files \cup {LogFile(DayOf(t), FALSE, t, {})}

\* the plaintext files compressOldLogFiles does not skip
OldPlaintext(files, t) == {f \in files : ~f.gz /\ f.day # DayOf(t)}

\* compressLogFile on each of them: os.Create of the .gz (an existing one is
\* truncated), io.Copy, os.Remove of the original, and only then the
\* deferred gzipWriter.Close, whose error is dropped: when it fails the .gz
\* lacks what the gzip writer still held.  A failed os.Create leaves the
\* plaintext, a failed os.Remove leaves it beside the .gz.
Compressed(files, t, createOk, removeOk, closeOk) ==
  LET plain == OldPlaintext(files, t)
      made == {LogFile(f.day, TRUE, t, IF closeOk THEN f.entries ELSE {}) :
                 f \in plain}
      truncated == {g \in files : g.gz /\ \E f \in plain : f.day = g.day}
  IN IF ~createOk THEN files
     ELSE ((files \ truncated) \ (IF removeOk THEN plain ELSE {})) \cup made

\* cleanupOldCompressedFiles: stat.ModTime().Before(cutoffDate)
CleanedUp(files, t) ==
  {f \in files : ~(f.gz /\ f.modTime < t - RetentionDays * HoursPerDay)}

\* one tick of the ticker with its maintenance pass; the sink may be down at
\* a tick, and then nothing is done
HourlyPass(up, createOk, removeOk, closeOk) ==
  /\ logdir.t < MaxHours
  /\ LET t == logdir.t + 1
         ok == up /\ createOk /\ removeOk /\ closeOk
     IN /\ ok \/ logdir.faults < MaxMaintenanceFaults
        /\ Cardinality({i \in 1..4 :
              ~<<up, createOk, removeOk, closeOk>>[i]}) <= 1
        /\ (createOk /\ removeOk /\ closeOk)
             \/ OldPlaintext(Rotated(logdir.files, t), t) # {}
        /\ logdir' =
             [t |-> t,
              files |-> IF up
                        THEN CleanedUp(Compressed(Rotated(logdir.files, t),
                                                  t, createOk, removeOk,
                                                  closeOk), t)
                        ELSE logdir.files,
              logged |-> logdir.logged,
              passed |-> up,
              faults |-> IF ok THEN logdir.faults ELSE logdir.faults + 1]
  /\ UNCHANGED <<lifecycleVars, sessionVars, term, parse, audit, nfs, adm>>

MaintenanceNext ==
  \/ LogWritten
  \/ \E up, createOk, removeOk, closeOk \in BOOLEAN :
       HourlyPass(up, createOk, removeOk, closeOk)

MaintenanceSpec == Init /\ [][MaintenanceNext]_vars

\* ------------------------------------------------------- the NFS share
\* The Generator calls EnsureNFSDirectory(ctx, namespace, item.Owner) before
\* it creates the workload; the owner id is the e-mail address of the
\* account (authMiddleware: ownerID = userEmail).
MaxOwners == 2       \* owners whose directory is made
MaxOwnerIdLen == 3   \* characters of an owner id

\* the characters of the owner ids: letters, and two characters outside
\* [a-z0-9-]
Letters == {"a", "b"}
OwnerIdChars == Letters \cup {".", "_"}

\* owner ids begin and end with a letter
OwnerIds ==
  {id \in UNION {[1..n -> OwnerIdChars] : n \in 1..MaxOwnerIdLen} :
     id[1] \in Letters /\ id[Len(id)] \in Letters}

\* reg.ReplaceAllString(sanitized, "-") with reg = "[^a-z0-9-]+": each run
\* of characters outside the class becomes one "-"
RECURSIVE ReplaceRuns(_, _)
ReplaceRuns(str, inRun) ==
  IF str = <<>> THEN <<>>
  ELSE IF Head(str) \in Letters \cup {"-"}
  THEN <<Head(str)>> \o ReplaceRuns(Tail(str), FALSE)
  ELSE IF inRun THEN ReplaceRuns(Tail(str), TRUE)
  ELSE <<"-">> \o ReplaceRuns(Tail(str), TRUE)

\* strings.Trim(sanitized, "-")
RECURSIVE TrimDashes(_)
TrimDashes(str) ==
  IF str # <<>> /\ Head(str) = "-" THEN TrimDashes(Tail(str))
  ELSE IF str # <<>> /\ str[Len(str)] = "-"
  THEN TrimDashes(SubSeq(str, 1, Len(str) - 1))
  ELSE str

\* sanitizeName; the ids are in lower case already
sanitizeName(name) ==
  LET sanitized == TrimDashes(ReplaceRuns(name, FALSE))
  IN IF Len(sanitized) = 0 THEN <<"invalid-name">> ELSE sanitized

\* EnsureNFSDirectory: mkdir -p /exports/<dirName> on the NFS server; the
\* directory name is returned and becomes the subPath of the /root/share
\* mount of the owner's sandbox.  When the exec fails nothing is mounted.
EnsureNFSDirectory(ownerID, ok) ==
  /\ ownerID \in {m.owner : m \in nfs} \/ Cardinality(nfs) < MaxOwners
  /\ nfs' = IF ok
            THEN nfs \cup {[owner |-> ownerID,
                            subPath |-> sanitizeName(ownerID)]}
            ELSE nfs
  /\ UNCHANGED <<lifecycleVars, sessionVars, term, parse, audit, logdir, adm>>

NfsNext ==
  \E ownerID \in OwnerIds, ok \in BOOLEAN : EnsureNFSDirectory(ownerID, ok)

NfsSpec == Init /\ [][NfsNext]_vars

\* ------------------------------------------------- the Generator's loop
\* The Generator alone, with several records in the queue.  The clock counts
\* readiness timeouts (5 minutes): the poll period (5 s) and the steps of
\* processItem other than the readiness wait are shorter than one tick.
MaxPollIds == 2      \* records created

\* createEnvironment, accepted: AddItem of a pending record
CreatePending(id, version) ==
  /\ id \in 1..MaxPollIds \ issued
  /\ \A j \in 1..MaxPollIds \ issued : id <= j
  /\ issued' = issued \cup {id}
  /\ queue' = HSet(queue,
       [id |-> id, owner |-> "alice", k8sVersion |-> version,
        status |-> StatusPending, errorMessage |-> "",
        statusUpdatedAt |-> now, podId |-> EmptyPodID,
        expiresAt |-> now + Lifetime, displayName |-> Ascii50,
        workloadType |-> WorkloadTypeOf("statefulset")])
  /\ UNCHANGED <<now, workloads, gw, gen, col, kil, observedReady, destroyed,
                 requests, failures, restarts, last, term, auditVars, sessionVars>>

\* time passes while the Generator has nothing to do at once: it waits for
\* the 10 s ticker of the readiness loop, or it is idle with no pending
\* record for its next poll
PollTick ==
  /\ \/ gen.pc = "wait"
     \/ gen.pc = "idle" /\ GetItemsByStatus(StatusPending) = <<>>
  /\ Tick

PollNext ==
  \/ \E id \in 1..MaxPollIds, version \in RequestedVersions :
       CreatePending(id, version)
  \/ PollTick
  \/ GeneratorPoll
  \/ GeneratorHSetGenerating(TRUE)
  \/ GeneratorHSetErrorVersion(TRUE)
  \/ GeneratorProvision(TRUE)
  \/ \E pod \in PodObservations : GeneratorWaitPoll(pod)
  \/ GeneratorWaitTimeout
  \/ GeneratorHSetAvailable(TRUE)
  \/ GeneratorHSetError(TRUE)

PollSpec == Init /\ [][PollNext]_vars

\* ------------------------------------------------- the readiness probe
\* Client.IsPodRunning on the pods GetPod can return, with several containers
MaxProbeContainers == 2    \* container statuses of a probed pod

ProbeObservations ==
  [getErr : {TRUE}, phase : {""}, cs : {<<>>}]
  \cup [getErr : {FALSE}, phase : PodPhases,
        cs : UNION {[1 .. n -> ContainerStatuses] :
                      n \in 0 .. MaxProbeContainers}]

\* one call of IsPodRunning, as processItem makes it at every tick of its
\* readiness loop
ProbePod(pod) ==
  /\ probe' = [called |-> TRUE, pod |-> pod, result |-> IsPodRunning(pod)]
  /\ UNCHANGED <<lifecycleVars, term, auditVars, rd, sess, pf>>

ProbeNext == \E pod \in ProbeObservations : ProbePod(pod)

ProbeSpec == Init /\ [][ProbeNext]_vars

\* ------------------------------------------------- the WebSocket reader
\* WSClient.Read on the text and binary frames of one session.  A frame is a
\* JSON object over the keys Read looks at, or bytes that are not JSON.
MaxReadFrames == 2     \* frames received in one session

JsonKeys == {"resize", "cols", "rows"}
JsonNumbers == {"24", "80"}
\* the values of a key: true, false, a number, or a string
JsonValues(k) ==
  IF k = "resize" THEN {"true", "false", "s"}
  ELSE IF k = "cols" THEN {"80", "s"}
  ELSE {"24", "s"}
JsonObjects ==
  UNION {{o \in [K -> {"true", "false", "s"} \cup JsonNumbers] :
            \A k \in K : o[k] \in JsonValues(k)} : K \in SUBSET JsonKeys}

\* frames of keystrokes
KeyFrames == {<<"l">>, <<"l", "s">>, <<CR>>}

ReadFrames ==
  [json : {TRUE}, obj : JsonObjects, data : {<<>>}]
  \cup [json : {FALSE}, obj : {[k \in {} |-> ""]}, data : KeyFrames]

\* json.Unmarshal succeeds, controlMsg["resize"].(bool) is true, and
\* controlMsg["cols"] and controlMsg["rows"] are float64
ResizeControl(frame) ==
  /\ frame.json
  /\ "resize" \in DOMAIN frame.obj /\ frame.obj["resize"] = "true"
  /\ "cols" \in DOMAIN frame.obj /\ frame.obj["cols"] \in JsonNumbers
  /\ "rows" \in DOMAIN frame.obj /\ frame.obj["rows"] \in JsonNumbers

\* ParseCommandFromWebSocketDataWithSession returns at once for a JSON
\* message with a key "resize"
ParserSkips(frame) == frame.json /\ "resize" \in DOMAIN frame.obj

\* Read without `continue` after Resize: the frame goes on to the parser and
\* to stdin
ReadFrame_NoContinue(frame) ==
  /\ Len(rd.received) < MaxReadFrames
  /\ rd' = [received |-> Append(rd.received, frame),
            resized |-> IF ResizeControl(frame)
                        THEN Append(rd.resized,
                                    <<frame.obj["cols"], frame.obj["rows"]>>)
                        ELSE rd.resized,
            scanned |-> IF ParserSkips(frame) THEN rd.scanned
                        ELSE Append(rd.scanned, frame),
            stdin |-> Append(rd.stdin, frame)]
  /\ UNCHANGED <<lifecycleVars, term, auditVars, probe, sess, pf>>

\* one round of the loop of Read: a resize message goes to session.Resize and
\* the loop continues; any other frame goes to the keystroke parser, which
\* scans it unless it skips it, and is copied to the buffer of the caller,
\* the stdin of the exec stream (the buffer is not smaller than a frame)
ReadFrame(frame) ==
  /\ Len(rd.received) < MaxReadFrames
  /\ rd' = IF ResizeControl(frame)
           THEN [rd EXCEPT !.received = Append(@, frame),
                           !.resized = Append(@, <<frame.obj["cols"],
                                                   frame.obj["rows"]>>)]
           ELSE [rd EXCEPT !.received = Append(@, frame),
                           !.scanned = IF ParserSkips(frame) THEN @
                                       ELSE Append(@, frame),
                           !.stdin = Append(@, frame)]
  /\ UNCHANGED <<lifecycleVars, term, auditVars, probe, sess, pf>>

ReadNext == \E frame \in ReadFrames : ReadFrame(frame)

ReadSpec == Init /\ [][ReadNext]_vars

\* ------------------------------------------------- the terminal session
\* One attach: the handler (handleTerminalSession), the goroutine that runs
\* ExecInPod, the ping timer of the WSClient, and the browser.  sess.writing
\* is the set of goroutines inside conn.WriteMessage.
MaxChunks == 3       \* chunks of one Write of exec output

OnlySess == UNCHANGED <<lifecycleVars, term, auditVars, probe, rd, pf>>

\* the pod is checked again; when it is not running the handler sends the
\* error message, otherwise it makes the session and the WSClient, which
\* starts the ping timer
Attach(running) ==
  /\ sess.h = "start"
  /\ sess' = IF running
             THEN [sess EXCEPT !.h = "handshake", !.p = "wait"]
             ELSE [sess EXCEPT !.h = "error_msg",
                               !.writing = @ \cup {"error"}]
  /\ OnlySess

\* conn.ReadMessage of the initial frame: on an error (the browser has
\* closed, or the read deadline has passed) the handler returns, otherwise
\* it sends the banner with sendRawMessage
Handshake(ok) ==
  /\ sess.h = "handshake"
  /\ ok => sess.ws = "open"
  /\ sess' = IF ok
             THEN [sess EXCEPT !.h = "banner",
                               !.writing = @ \cup {"banner"}]
             ELSE [sess EXCEPT !.h = "done", !.done = TRUE,
                               !.conn = "closed"]
  /\ OnlySess

\* conn.WriteMessage of the handler returns: after the error message the
\* handler returns, after the banner it starts the exec goroutine and waits
HandlerWriteDone ==
  /\ sess.h \in {"error_msg", "banner"}
  /\ sess' = IF sess.h = "error_msg"
             THEN [sess EXCEPT !.h = "done", !.conn = "closed",
                               !.writing = @ \ {"error"}]
             ELSE [sess EXCEPT !.h = "select", !.e = "stream",
                               !.ctx = "live",
                               !.writing = @ \ {"banner"}]
  /\ OnlySess

\* startPingTimer, case <-ticker.C: the timer goes to take the mutex
PingTick ==
  /\ sess.p = "wait"
  /\ sess' = [sess EXCEPT !.p = "lock"]
  /\ OnlySess

\* c.mutex.Lock() returns and the ping is written
PingLock ==
  /\ sess.p = "lock"
  /\ sess.mutex = ""
  /\ sess' = [sess EXCEPT !.p = "ping", !.mutex = "ping",
                          !.writing = @ \cup {"ping"}]
  /\ OnlySess

\* the write of the ping returns and the mutex is released; after an error
\* the timer returns
PingDone ==
  /\ sess.p = "ping"
  /\ sess' = [sess EXCEPT !.p = IF sess.conn = "open" /\ sess.ws = "open"
                                THEN "wait" ELSE "done",
                          !.mutex = "",
                          !.writing = @ \ {"ping"}]
  /\ OnlySess

\* startPingTimer, case <-c.session.Done()
PingStop ==
  /\ sess.p = "wait"
  /\ sess.done
  /\ sess' = [sess EXCEPT !.p = "done"]
  /\ OnlySess

\* WSClient.Write is called with exec output of n chunks: the mutex is taken
\* and the first chunk written
ExecWrite(n) ==
  /\ sess.e = "stream"
  /\ sess.mutex = ""
  /\ sess' = [sess EXCEPT !.e = "write", !.mutex = "exec", !.chunks = n,
                          !.writing = @ \cup {"exec"}]
  /\ OnlySess

\* the loop of WSClient.Write: the write of a chunk returns, and Write
\* sleeps before the next chunk or releases the mutex after the last one;
\* after the sleep the next chunk is written.  On a connection the browser
\* has closed the write fails and Write returns the error to the stream,
\* whose copy of stdout ends.
ExecChunk ==
  /\ sess.e \in {"write", "sleep"}
  /\ sess' = IF sess.e = "sleep"
             THEN [sess EXCEPT !.e = "write", !.writing = @ \cup {"exec"}]
             ELSE IF sess.ws = "closed"
             THEN [sess EXCEPT !.e = "broken", !.chunks = 0, !.mutex = "",
                               !.writing = @ \ {"exec"}]
             ELSE IF sess.chunks > 1
             THEN [sess EXCEPT !.e = "sleep", !.chunks = @ - 1,
                               !.writing = @ \ {"exec"}]
             ELSE [sess EXCEPT !.e = "stream", !.chunks = 0, !.mutex = "",
                               !.writing = @ \ {"exec"}]
  /\ OnlySess

\* the browser closes the WebSocket
BrowserClose ==
  /\ sess.ws = "open"
  /\ sess' = [sess EXCEPT !.ws = "closed"]
  /\ OnlySess

\* WSClient.Read returns the error of ReadMessage to the stdin copy of the
\* exec stream, which ends: nothing else is done with the error
StdinReadFails ==
  /\ sess.e \in {"stream", "write", "sleep", "broken"}
  /\ sess.ws = "closed"
  /\ sess.stdin = "open"
  /\ sess' = [sess EXCEPT !.stdin = "closed"]
  /\ OnlySess

\* executor.StreamWithContext returns, ExecInPod returns: the shell in the
\* pod has exited, or the stream has failed; after an error the exec
\* goroutine sends the error message
StreamEnds(err) ==
  /\ sess.e \in {"stream", "broken"}
  /\ sess' = IF err
             THEN [sess EXCEPT !.e = "error_msg",
                               !.writing = @ \cup {"error"}]
             ELSE [sess EXCEPT !.e = "cancel"]
  /\ OnlySess

\* the exec goroutine after ExecInPod: the write of the error message
\* returns; the deferred cancelExec runs
ExecReturn ==
  /\ sess.e \in {"error_msg", "cancel"}
  /\ sess' = IF sess.e = "error_msg"
             THEN [sess EXCEPT !.e = "cancel", !.writing = @ \ {"error"}]
             ELSE [sess EXCEPT !.e = "done", !.ctx = "cancelled"]
  /\ OnlySess

\* the select at the end of the handler, and its deferred calls:
\* cancelExec, session.Close, conn.Close
HandlerSelect ==
  /\ sess.h = "select"
  /\ sess.done \/ sess.ctx = "cancelled"
  /\ sess' = [sess EXCEPT !.h = "done", !.ctx = "cancelled", !.done = TRUE,
                          !.conn = "closed"]
  /\ OnlySess

SessionNext ==
  \/ \E running \in BOOLEAN : Attach(running)
  \/ \E ok \in BOOLEAN : Handshake(ok)
  \/ HandlerWriteDone
  \/ PingTick
  \/ PingLock
  \/ PingDone
  \/ PingStop
  \/ \E n \in 1..MaxChunks : ExecWrite(n)
  \/ ExecChunk
  \/ BrowserClose
  \/ StdinReadFails
  \/ \E err \in BOOLEAN : StreamEnds(err)
  \/ ExecReturn
  \/ HandlerSelect

SessionSpec == Init /\ [][SessionNext]_vars

\* the goroutines of the Gateway take their steps; the browser and the
\* shell in the pod act when they like
SessionFairness ==
  /\ WF_vars(\E running \in BOOLEAN : Attach(running))
  /\ WF_vars(\E ok \in BOOLEAN : Handshake(ok))
  /\ WF_vars(HandlerWriteDone)
  /\ WF_vars(PingTick)
  /\ WF_vars(PingLock)
  /\ WF_vars(PingDone)
  /\ WF_vars(PingStop)
  /\ WF_vars(ExecChunk)
  /\ WF_vars(StdinReadFails)
  /\ WF_vars(ExecReturn)
  /\ WF_vars(HandlerSelect)

LiveSessionSpec == SessionSpec /\ SessionFairness

\* ------------------------------------------------------- the HTTP proxy
\* proxyThroughDinDContainer: a bash script is run in the sandbox through
\* the exec stream, under a deadline of 20 s.  The script starts kubectl
\* port-forward in the background, sleeps, runs curl, and kills and waits
\* the port-forward.
ProxyIds == 1..MaxProxyRequests

OnlyPf == UNCHANGED <<lifecycleVars, term, auditVars, probe, rd, sess>>

\* the request arrives: without a service on the port it is answered 404,
\* otherwise the script is started and with it the port-forward
ProxyRequest(r, found) ==
  /\ pf[r].req = "idle"
  /\ pf' = [pf EXCEPT ![r] =
              IF found
              THEN [req |-> "exec", script |-> "sleep",
                    forward |-> "alive", code |-> 0]
              ELSE [@ EXCEPT !.req = "done", !.code = 404]]
  /\ OnlyPf

\* the script goes on, whether or not the Gateway still waits for it:
\* sleep 2; curl; kill $PF_PID and wait $PF_PID
ScriptStep(r) ==
  /\ pf[r].script \in {"sleep", "curl", "kill"}
  /\ pf' = [pf EXCEPT ![r] =
              IF @.script = "sleep" THEN [@ EXCEPT !.script = "curl"]
              ELSE IF @.script = "curl" THEN [@ EXCEPT !.script = "kill"]
              ELSE [@ EXCEPT !.script = "exited", !.forward = "dead"]]
  /\ OnlyPf

\* StreamWithContext returns without error: the output of curl is answered
StreamReturns(r) ==
  /\ pf[r].req = "exec"
  /\ pf[r].script = "exited"
  /\ pf' = [pf EXCEPT ![r].req = "done", ![r].code = 200]
  /\ OnlyPf

\* the deadline of 20 s passes before the script has ended:
\* StreamWithContext returns the error of the context and the request is
\* answered 408
Deadline(r) ==
  /\ pf[r].req = "exec"
  /\ pf[r].script # "exited"
  /\ pf' = [pf EXCEPT ![r].req = "done", ![r].code = 408]
  /\ OnlyPf

\* after the exec stream of a cancelled request is gone, the container
\* runtime may end the bash process of the script; the script sets no trap
\* and its background job is not ended with it
ScriptKilled(r) ==
  /\ pf[r].req = "done"
  /\ pf[r].code = 408
  /\ pf[r].script \in {"sleep", "curl", "kill"}
  /\ pf' = [pf EXCEPT ![r].script = "killed"]
  /\ OnlyPf

ProxyNext ==
  \E r \in ProxyIds :
    \/ \E found \in BOOLEAN : ProxyRequest(r, found)
    \/ ScriptStep(r)
    \/ StreamReturns(r)
    \/ Deadline(r)
    \/ ScriptKilled(r)

ProxySpec == Init /\ [][ProxyNext]_vars

\* ================================================================ claims
Stored(id) == id \in DOMAIN queue
StillStored(id) == id \in DOMAIN queue /\ id \in DOMAIN queue'

\* the edges of section 4.7.2, with the expiry and destroy edges of sections
\* 4.4 and 4.7 and "any step may transition to error" of section 3
AllowedEdges ==
  {<<StatusPending, StatusGenerating>>, <<StatusGenerating, StatusAvailable>>,
   <<StatusPending, StatusShutdown>>, <<StatusGenerating, StatusShutdown>>,
   <<StatusAvailable, StatusShutdown>>, <<StatusError, StatusShutdown>>,
   <<StatusShutdown, StatusTerminated>>,
   <<StatusPending, StatusError>>, <<StatusGenerating, StatusError>>,
   <<StatusAvailable, StatusError>>, <<StatusShutdown, StatusError>>}

BackwardEdges ==
  ({StatusShutdown, StatusTerminated}
     \X {StatusPending, StatusGenerating, StatusAvailable})
  \cup ({StatusAvailable} \X {StatusPending, StatusGenerating})

\* C1: every change of a record's stored status follows an allowed edge of
\* the state machine, and no write moves a record backward (from shutdown or
\* terminated to pending, generating or available, or from available to
\* pending or generating).
C1_AllowedEdgesOnly ==
  [][\A id \in Ids :
       (StillStored(id) /\ queue'[id].status # queue[id].status)
         => /\ <<queue[id].status, queue'[id].status>> \in AllowedEdges
            /\ <<queue[id].status, queue'[id].status>> \notin BackwardEdges]_vars

\* the HSET of an UpdateItem by each writer
GeneratorWrites == gen' # gen /\ queue' # queue
CollectorWrites == col' # col /\ queue' # queue /\ col.pc # "delete"
KillerWrites == kil' # kil /\ queue' # queue
GatewayWrites == gw' # gw /\ queue' # queue

StoredStatus(id) == IF Stored(id) THEN queue[id].status ELSE "deleted"

\* C2: whenever the Generator, Collector, Killer or Gateway overwrites a
\* record, the status stored at the moment of the write is the status that
\* writer read (or last wrote itself): no write lands on top of a status that
\* another component changed in between.
C2_WritesOnTopOfStatusRead ==
  [][/\ GeneratorWrites => StoredStatus(gen.item.id) = gen.seen
     /\ CollectorWrites => StoredStatus(col.item.id) = col.seen
     /\ KillerWrites => StoredStatus(kil.item.id) = kil.seen
     /\ GatewayWrites => StoredStatus(gw.item.id) = gw.seen]_vars

\* C3: after a DELETE request by the owner has succeeded, the record is never
\* stored as generating or available again.
C3_DestroyedStaysDown ==
  \A id \in destroyed :
    Stored(id) => queue[id].status \notin {StatusGenerating, StatusAvailable}

\* C4: every record that is stored as generating eventually reaches available
\* or error, also when the Generator is restarted in between.
C4_GeneratingReachesOutcome ==
  \A id \in Ids :
    (Stored(id) /\ queue[id].status = StatusGenerating)
      ~> (Stored(id) /\ queue[id].status \in {StatusAvailable, StatusError})

\* C5: statusUpdatedAt never decreases from one stored version of a record to
\* the next.
C5_StatusUpdatedAtMonotone ==
  [][\A id \in Ids :
       StillStored(id)
         => queue'[id].statusUpdatedAt >= queue[id].statusUpdatedAt]_vars

\* C6: once a record is stored as terminated no operation changes any of its
\* fields; it can only be deleted.
C6_TerminatedIsReadOnly ==
  [][\A id \in Ids :
       (StillStored(id) /\ queue[id].status = StatusTerminated)
         => queue'[id] = queue[id]]_vars

\* C7: a stored pending record has an empty podId, and once a stored version
\* has a non-empty podId every later stored version has the same podId.
C7_PodIdStable ==
  [][/\ \A id \in DOMAIN queue' :
          queue'[id].status = StatusPending => queue'[id].podId = EmptyPodID
     /\ \A id \in Ids :
          (StillStored(id) /\ queue[id].podId # EmptyPodID)
            => queue'[id].podId = queue[id].podId]_vars

\* C8: a record is stored as available only if the Generator has at some
\* earlier instant observed its pod Running with all containers Ready.
C8_AvailableWasObservedReady ==
  \A id \in DOMAIN queue :
    queue[id].status = StatusAvailable => id \in observedReady

\* C8 witness: a record is stored as available
C8_Witness ==
  \E id \in DOMAIN queue :
    queue[id].status = StatusAvailable /\ id \in observedReady

\* the messages of the error writes that follow a failed queue write
WriteFailureMessages == {MsgUpdateGenerating, MsgCollect, MsgUpdateTerminating}

\* C9: when the write of generating, shutdown or terminated fails inside a
\* loop, the record is left as it was: it is not moved to error because of
\* the failed write.
C9_NoErrorFromFailedWrite ==
  \A id \in DOMAIN queue :
    queue[id].status = StatusError
      => queue[id].errorMessage \notin WriteFailureMessages

\* the body of the Collector's loop applied to record r at the present time
PassDecision(r) == ColAdvance(<<r>>, now)

CollectableStatus(status) ==
  status \notin {StatusShutdown, StatusTerminated, StatusError}

\* C10 as stated: a Collector pass at time now sets a record to shutdown
\* exactly when its status is not shutdown, terminated or error and
\* now >= expiresAt, the instant now = expiresAt included.
C10_CollectsAtOrAfterExpiry ==
  \A id \in DOMAIN queue :
    (PassDecision(queue[id]).pc = "hset_shutdown")
      <=> (CollectableStatus(queue[id].status) /\ now >= queue[id].expiresAt)

\* C10 as amended: a Collector pass at time now sets a record's status to
\* shutdown and issues the write exactly when the status it read is not
\* shutdown, terminated or error and now > expiresAt (strictly after expiry);
\* for any other record it issues no status write.
C10_CollectsStrictlyAfterExpiry ==
  /\ \A id \in DOMAIN queue :
       LET d == PassDecision(queue[id])
       IN /\ (d.pc = "hset_shutdown" /\ d.item.status = StatusShutdown)
               <=> (/\ CollectableStatus(queue[id].status)
                    /\ now > queue[id].expiresAt)
          /\ d.pc \in {"hset_shutdown", "delete", "idle"}
  /\ col.pc = "hset_shutdown"
       => /\ CollectableStatus(col.seen)
          /\ col.item.status = StatusShutdown
          /\ col.item.statusUpdatedAt > col.item.expiresAt

\* C10 witness: the Collector has found an expired record and set it to
\* shutdown
C10_Witness ==
  /\ col.pc = "hset_shutdown"
  /\ col.item.statusUpdatedAt > col.item.expiresAt

\* the clock has stopped while the record is terminated and still within the
\* grace period: the run ends before the deletion is due
HorizonReached(id) ==
  /\ now = MaxTime
  /\ Stored(id)
  /\ queue[id].status = StatusTerminated
  /\ now - queue[id].statusUpdatedAt <= TerminatedGracePeriod

\* C11: every record that is stored as terminated is eventually deleted from
\* the queue (within the horizon of the clock: unless the clock stops while
\* the record is terminated and its grace period has not elapsed), whatever
\* Gateway requests arrive in the meantime.
C11_TerminatedIsDeleted ==
  \A id \in Ids :
    (Stored(id) /\ queue[id].status = StatusTerminated)
      ~> (~Stored(id) \/ HorizonReached(id))

\* C12: when a record has expired and the Generator has created a workload
\* for it, the workload is eventually deleted from the outer cluster.
C12_ExpiredWorkloadIsDeleted ==
  \A id \in Ids :
    (Stored(id) /\ now > queue[id].expiresAt /\ WorkloadName(id) \in workloads)
      ~> (WorkloadName(id) \notin workloads)

\* C13: a run of the Killer on a shutdown record stores the record as
\* terminated, on the first run and on a later run on the same record alike,
\* and whatever the outer API answers to the delete call (NotFound for a
\* workload that is already gone included) the record is left as stored and
\* the Killer does not turn to writing an error.
C13_KillerIdempotent ==
  [][/\ (kil.pc = "hset_terminated" /\ KillerWrites)
          => queue'[kil.item.id].status = StatusTerminated
     /\ (kil.pc = "delete" /\ kil' # kil)
          => /\ queue' = queue
             /\ kil'.pc # "hset_error"
             /\ kil.item.status = StatusTerminated]_vars

\* C13 witness: the Killer has stored terminated a second time for a record
\* whose workload an earlier run has deleted, and is about to call delete
C13_Witness ==
  /\ kil.pc = "delete"
  /\ kil.item.podId \notin workloads
  /\ Stored(kil.item.id)
  /\ queue[kil.item.id].status = StatusTerminated

\* C14: every stored record whose status is error has a non-empty
\* errorMessage, whichever component wrote the error status.
C14_ErrorHasMessage ==
  \A id \in DOMAIN queue :
    queue[id].status = StatusError => queue[id].errorMessage # ""

\* C14 witness: a record is stored as error after a failed provisioning, a
\* failed readiness wait or a failed queue write
C14_Witness ==
  \E id \in DOMAIN queue :
    /\ queue[id].status = StatusError
    /\ queue[id].errorMessage \in
         {MsgProvision, MsgPodStatus, MsgTimeout, MsgCollect,
          MsgUpdateTerminating}

\* C15: for a record whose k8sVersion is not a key of the version-to-image
\* map, the Generator's write after the lookup stores status error with the
\* message that lists the configured versions, and the Generator never gets
\* to EnsureNFSDirectory or the creation of a workload for that record: no
\* workload exists for it.
C15_UnknownVersionNotProvisioned ==
  [][/\ (gen.pc = "hset_error_version" /\ GeneratorWrites)
          => /\ queue'[gen.item.id].status = StatusError
             /\ queue'[gen.item.id].errorMessage = MsgUnsupported
     /\ (gen'.pc # "idle" /\ gen'.item.k8sVersion \notin dindImageVersions)
          => gen'.pc \in {"hset_generating", "hset_error_version",
                          "hset_error"}
     /\ \A id \in DOMAIN queue' :
          queue'[id].k8sVersion \notin dindImageVersions
            => WorkloadName(id) \notin workloads']_vars

\* C15 witness: a record with an unknown version is stored as error with the
\* message of the failed lookup
C15_Witness ==
  \E id \in DOMAIN queue :
    /\ queue[id].k8sVersion \notin dindImageVersions
    /\ queue[id].status = StatusError
    /\ queue[id].errorMessage = MsgUnsupported

\* a request of handler op has been answered in this step
Answered(ops) == last' # last /\ last'.op \in ops

ResourceOps == {"rename", "destroy", "connect", "services", "proxy"}

C17_ExecOnlyWhenAvailable ==
  [][Answered({"connect", "services", "proxy"})
       => /\ (last'.exec \/ last'.upgraded)
               => /\ last'.id \in DOMAIN queue
                  /\ queue[last'.id].status = StatusAvailable
                  /\ queue[last'.id].podId # EmptyPodID
          /\ (/\ last'.id \in DOMAIN queue
              /\ queue[last'.id].owner = last'.principal
              /\ queue[last'.id].status # StatusAvailable)
               => /\ last'.code = 400
                  /\ ~last'.upgraded
                  /\ ~last'.exec]_vars

\* C17 witness: a terminal has been attached to an available record
C17_Witness ==
  /\ last.op = "connect"
  /\ last.upgraded
  /\ last.exec

\* C18: no operation rewrites a stored record's owner or workloadType, and
\* the workloadType of every stored record is one of the two flavours.
C18_OwnerAndWorkloadTypeFixed ==
  [][/\ \A id \in Ids :
          StillStored(id)
            => /\ queue'[id].owner = queue[id].owner
               /\ queue'[id].workloadType = queue[id].workloadType
     /\ \A id \in DOMAIN queue' :
          queue'[id].workloadType \in {"statefulset", "deployment"}]_vars

\* C18 witness: a record created as a deployment has gone through the whole
\* lifecycle and is stored as terminated
C18_Witness ==
  \E id \in DOMAIN queue :
    /\ queue[id].status = StatusTerminated
    /\ queue[id].workloadType = "deployment"
    /\ queue[id].owner \in Owners
    /\ queue[id].podId # EmptyPodID

\* C19: create and rename do not reject a displayName of 50 characters, they
\* reject one of 51 characters with 400 leaving the queue unchanged, and no
\* stored displayName is longer than 50 characters.
C19_DisplayNameBoundary ==
  [][/\ Answered({"create", "rename"})
          => /\ last'.name.chars = MaxDisplayName => last'.code # 400
             /\ last'.name.chars = MaxDisplayName + 1
                  => /\ last'.code = 400
                     /\ queue' = queue
                     /\ gw' = gw
     /\ \A id \in DOMAIN queue' :
          queue'[id].displayName.chars <= MaxDisplayName]_vars

\* every submitted size has been handled: Resize has returned and the exec
\* stream has emptied the queue
ResizeQuiescent ==
  /\ term.pc = "idle"
  /\ term.sizeChan = <<>>
  /\ term.submitted # <<>>

\* C20: whenever Resize has returned and the exec stream has drained the
\* resize queue, the last size the exec stream has observed is the last size
\* submitted: the newest size is never the one that is dropped.
C20_LastSizeObserved ==
  ResizeQuiescent
    => /\ term.observed # <<>>
       /\ term.observed[Len(term.observed)]
            = term.submitted[Len(term.submitted)]

\* C21: for every sequence of stdin frames of a session, however the bytes
\* are grouped into frames, the command texts logged at the newlines are the
\* lines the byte-by-byte rule builds (blank lines aside, white space at the
\* ends of a line aside)
C21_CommandsFollowByteRule == parse.commands = parse.lines

\* the entries the log file holds, in the order of the file
FileEntries == [i \in DOMAIN audit.file |-> audit.file[i].entry]
InFile(n) == \E i \in DOMAIN audit.file : audit.file[i].entry = n
InBuffer(n) == \E i \in DOMAIN audit.buffer : audit.buffer[i] = n

\* C22: within one session the audit records are in the log file in the
\* order in which their commands were flushed
C22_FileInFlushOrder ==
  \A i, j \in DOMAIN audit.file :
    i < j => audit.file[i].entry < audit.file[j].entry

\* C23: the sink never drops an entry: when it is done with an entry it has
\* popped, the entry is in the log file or back in the side channel
C23_PoppedEntryIsKept ==
  [][((\E openOk, writeOk \in BOOLEAN : SinkWrite(openOk, writeOk))
        \/ (\E ok \in BOOLEAN : SinkRequeue(ok)))
       /\ audit'.sink = "brpop"
     => \/ \E i \in DOMAIN audit'.file : audit'.file[i].entry = audit.entry
        \/ \E i \in DOMAIN audit'.buffer : audit'.buffer[i] = audit.entry]_vars

\* C24: every entry pushed to the side channel is eventually in the log file
C24_PushedEntryIsLogged ==
  \A n \in Entries : InBuffer(n) ~> InFile(n)

\* C25: only the sink appends to the audit log file
C25_SingleWriter ==
  \A i \in DOMAIN audit.file : audit.file[i].by = "sink"

\* the stored entries a query matches, and the place of one of them among
\* these when the newest comes first
Matching(userID, environmentID) ==
  {StoredLogs[i] : i \in {k \in DOMAIN StoredLogs :
     /\ userID = NoFilter \/ StoredLogs[k].userId = userID
     /\ environmentID = NoFilter
          \/ StoredLogs[k].environmentId = environmentID}}

Rank(e, M) == Cardinality({f \in M : f.timestamp > e.timestamp})

IsPage(logs, M, limit, offset) ==
  /\ Len(logs) = Cardinality({e \in M : Rank(e, M) >= offset
                                        /\ Rank(e, M) < offset + limit})
  /\ \A i \in DOMAIN logs : logs[i] \in M /\ Rank(logs[i], M) = offset + i - 1

\* C26: the admin query returns exactly the entries that match the filters,
\* newest first, restricted to the positions offset .. offset+limit-1,
\* through the sink's API as well as directly
C26_QueryReturnsThePage ==
  adm.op = "logs"
    => IsPage(adm.logs, Matching(adm.userId, adm.environmentId),
              adm.limit, adm.offset)

\* the entries written on one day, and the age of a day's file: the time
\* since the day ended
LoggedOn(day) == {e \in logdir.logged : DayOf(e) = day}
Retention == RetentionDays * HoursPerDay

\* C27: after each maintenance pass every file of a day before today is a
\* .gz that holds the entries of its day, today's file is there in
\* plaintext, and no .gz is older than 30 days; 31 days after a day has
\* ended no file of it exists; no entry younger than 30 days is deleted
C27_MaintenanceAndRetention ==
  /\ logdir.passed =>
       /\ \A f \in logdir.files :
            f.day < Today => f.gz /\ f.entries = LoggedOn(f.day)
       /\ \E f \in logdir.files : f.day = Today /\ ~f.gz
       /\ \A f \in logdir.files : f.day = Today => ~f.gz
       /\ \A f \in logdir.files : f.gz => logdir.t - f.modTime <= Retention
  /\ \A f \in logdir.files :
       logdir.t - (f.day + 1) * HoursPerDay < Retention + HoursPerDay
  /\ \A e \in logdir.logged :
       logdir.t - e < Retention
         => \E f \in logdir.files : f.day = DayOf(e) /\ e \in f.entries

\* C28: the directories of two different owners on the NFS share are
\* different
C28_OwnersHaveOwnDirectories ==
  \A m1, m2 \in nfs : m1.owner # m2.owner => m1.subPath # m2.subPath

\* C29: the Killer comes to the delete call of a record only by storing the
\* record as terminated, and only when the record's podId is set; the delete
\* call, failed or not, leaves the stored record as it is and does not send
\* the Killer to an error write; the only error the Killer stores is the
\* failed write of terminated.
C29_TerminatedBeforeDelete ==
  [][/\ (kil'.pc = "delete" /\ kil' # kil)
          => /\ kil.pc = "hset_terminated"
             /\ queue' = HSet(queue, kil.item)
             /\ kil.item.status = StatusTerminated
             /\ kil.item.podId # EmptyPodID
             /\ kil'.item = kil.item
     /\ (kil.pc = "delete" /\ kil' # kil)
          => /\ queue' = queue
             /\ kil'.pc # "hset_error"
             /\ workloads \ workloads' \subseteq {kil.item.podId}
     /\ (kil'.pc = "hset_error" /\ kil' # kil)
          => /\ kil.pc = "hset_terminated"
             /\ queue' = queue
             /\ kil'.item.errorMessage = MsgUpdateTerminating]_vars

\* C29 witness: the delete call of a terminated record has failed: the
\* Killer is done, the record is stored as terminated with its podId, and
\* the workload is still there
C29_Witness ==
  \E id \in DOMAIN queue :
    /\ kil.pc = "idle"
    /\ queue[id].status = StatusTerminated
    /\ queue[id].podId # EmptyPodID
    /\ queue[id].podId \in workloads

\* the error messages of a run of the Generator that has created the
\* workload: a fatal readiness error, the readiness timeout
AfterProvision == {MsgPodStatus, MsgTimeout}

\* a record that was stored as error by such a run and has been destroyed by
\* its owner since
DestroyedAfterError(id) ==
  /\ Stored(id)
  /\ queue[id].status = StatusShutdown
  /\ queue[id].errorMessage \in AfterProvision
  /\ queue[id].podId = WorkloadName(id)
  /\ id \in destroyed

\* C30: when the Generator marks a record error after it has created the
\* workload, the record it stores carries the workload's name in podId
C30_ErrorRecordKeepsPodId ==
  [][(gen.pc = "hset_error" /\ GeneratorWrites
        /\ gen.item.errorMessage \in AfterProvision)
       => /\ queue'[gen.item.id].status = StatusError
          /\ queue'[gen.item.id].podId = WorkloadName(gen.item.id)]_vars

\* C30, the consequence: after the owner has destroyed such a record, the
\* Killer calls the delete of exactly that workload
C30_DestroyedErrorIsTornDown ==
  \A id \in Ids :
    DestroyedAfterError(id)
      ~> (kil.pc = "delete" /\ kil.item.id = id
            /\ kil.item.podId = WorkloadName(id))

\* C38: a record that is not stored any more (the Collector has deleted it)
\* is never stored again under the same id
C38_DeletedStaysDeleted ==
  [][\A id \in issued :
       id \notin DOMAIN queue => id \notin DOMAIN queue']_vars

\* C39: the Generator never comes to create the workload of a record whose
\* workload it has created before
C39_ProvisionedOnce ==
  [][(gen.pc = "provision" /\ gen' # gen)
       => WorkloadName(gen.item.id) \notin workloads]_vars

\* C40: the write of a rename leaves the stored status, podId and
\* errorMessage as they were stored immediately before the write
C40_RenameFrame ==
  [][(gw.pc = "hset" /\ gw.op = "rename" /\ GatewayWrites)
       => /\ gw.item.id \in DOMAIN queue
          /\ queue'[gw.item.id].status = queue[gw.item.id].status
          /\ queue'[gw.item.id].podId = queue[gw.item.id].podId
          /\ queue'[gw.item.id].errorMessage
               = queue[gw.item.id].errorMessage]_vars

\* C31: a pending record with an unknown k8sVersion is moved to error within
\* one poll period of its creation, i.e. before the clock of readiness
\* timeouts ticks, also while another record is being provisioned
C31_UnknownVersionFailsAtOnce ==
  \A id \in DOMAIN queue :
    (queue[id].status = StatusPending
       /\ queue[id].k8sVersion \notin dindImageVersions)
      => now = queue[id].expiresAt - Lifetime

\* s is a subsequence of t: the elements of s occur in t in the order of s
RECURSIVE IsSubsequence(_, _)
IsSubsequence(s, t) ==
  IF s = <<>> THEN TRUE
  ELSE IF t = <<>> THEN FALSE
  ELSE IF Head(s) = Head(t) THEN IsSubsequence(Tail(s), Tail(t))
  ELSE IsSubsequence(s, Tail(t))

\* the resize queue holds at most two sizes
C32_QueueBounded == Len(term.sizeChan) <= ResizeQueueDepth

\* the sizes the exec stream has received, followed by the sizes still
\* queued, are a subsequence of the submitted sizes in submission order
C32_ObservedInOrder ==
  IsSubsequence(term.observed \o term.sizeChan, term.submitted)

\* a call of Resize that found the queue full has returned
ResizeReturns == term.pc # "idle" /\ term'.pc = "idle"

\* C32: the resize queue never holds more than 2 sizes; when Resize, called
\* with the queue full, returns, the new size is the newest size of the queue
\* (the oldest size having been discarded if there was no room); the sizes
\* the exec stream receives are a subsequence of the submitted sizes
C32_FullQueueCoalesces ==
  [][/\ Len(term'.sizeChan) <= ResizeQueueDepth
     /\ IsSubsequence(term'.observed \o term'.sizeChan, term'.submitted)
     /\ ResizeReturns
          => /\ term'.sizeChan # <<>>
             /\ term'.sizeChan[Len(term'.sizeChan)] = term.size]_vars

\* a container status the claim calls fatal: CrashLoopBackOff, an image-pull
\* error, or terminated
FatalStatus(cs) ==
  \/ cs.waiting \in {"CrashLoopBackOff", "ImagePullBackOff", "ErrImagePull"}
  \/ cs.terminated

\* the pod was fetched and reports the status of at least one container
ProbedWithContainers ==
  probe.called /\ ~probe.pod.getErr /\ Len(probe.pod.cs) > 0

\* IsPodRunning returns true iff the phase is Running and every container
\* status is Ready
C37_RunningIffAllReady ==
  ProbedWithContainers
    => (probe.result.running
          <=> /\ probe.pod.phase = "Running"
              /\ \A i \in 1..Len(probe.pod.cs) : probe.pod.cs[i].ready)

\* C37: IsPodRunning returns true iff the phase is Running and every
\* container status is Ready, and it returns an error whenever a container,
\* at whatever position and in whatever phase of the pod, is in
\* CrashLoopBackOff, in an image-pull error state or terminated
C37_FatalStatusIsAnError ==
  /\ C37_RunningIffAllReady
  /\ (ProbedWithContainers
        /\ \E i \in 1..Len(probe.pod.cs) : FatalStatus(probe.pod.cs[i]))
       => probe.result.err

\* the control frames {resize: true, cols: N, rows: M}
ControlFrames ==
  {f \in ReadFrames :
     /\ f.json
     /\ DOMAIN f.obj = JsonKeys
     /\ f.obj["resize"] = "true"
     /\ f.obj["cols"] \in JsonNumbers
     /\ f.obj["rows"] \in JsonNumbers}

IsControlFrame(f) == f \in ControlFrames
IsOtherFrame(f) == f \notin ControlFrames

\* C33: the control frames received are resize signals, none of them is
\* forwarded as stdin or scanned by the keystroke parser, and the stdin of
\* the exec stream is the sequence of the other frames, unchanged
C33_ResizeFramesAreConsumed ==
  /\ rd.stdin = SelectSeq(rd.received, IsOtherFrame)
  /\ \A i \in 1..Len(rd.scanned) : IsOtherFrame(rd.scanned[i])
  /\ Len(rd.resized) = Len(SelectSeq(rd.received, IsControlFrame))

\* a control frame and a JSON frame that is not a control frame have been
\* received: the first is a resize signal, the second is stdin
C33_Witness ==
  /\ Len(rd.received) = 2
  /\ IsControlFrame(rd.received[1])
  /\ rd.received[2].json /\ IsOtherFrame(rd.received[2])
  /\ Len(rd.resized) = 1
  /\ rd.stdin = <<rd.received[2]>>

\* C34: at no time are two goroutines writing to the connection of a
\* session: exec output, ping, banner and error message exclude each other
C34_OneWriterAtATime == Cardinality(sess.writing) <= 1

\* while Write holds the mutex for its chunks no ping is written
C34_ChunksExcludePing == sess.mutex = "exec" => "ping" \notin sess.writing

\* the handler, the exec goroutine and the ping timer have returned
SessionOver ==
  /\ sess.h = "done"
  /\ sess.e \in {"none", "done"}
  /\ sess.p \in {"none", "done"}

\* C35: when the browser has closed the WebSocket, the session comes to an
\* end: the exec context is cancelled and the handler, the exec goroutine
\* and the ping timer return
C35_BrowserCloseEndsSession == (sess.ws = "closed") ~> SessionOver

\* when the exec stream has ended or failed, the connection is closed and
\* the handler, the exec goroutine and the ping timer return
C35_StreamEndEndsSession ==
  (sess.e \in {"error_msg", "cancel"})
    ~> (SessionOver /\ sess.conn = "closed" /\ sess.ctx = "cancelled")

\* C36: no port-forward of a proxy request is alive once the script of the
\* request has ended, be it after curl or after the deadline has cancelled
\* the request: from then on nothing of the request can kill it
C36_ForwardEndsWithScript ==
  \A r \in ProxyIds :
    pf[r].script \in {"exited", "killed"} => pf[r].forward # "alive"

\* where the script runs to its end the port-forward is killed, also after
\* the deadline
C36_ScriptEndKillsForward ==
  \A r \in ProxyIds : pf[r].script = "exited" => pf[r].forward = "dead"

====
